---- MODULE Spec2Model ----
(***************************************************************************)
(* A model of agent.go: the agent loop (query), the tool dispatcher and    *)
(* its tools, the path sandbox, the command blocklist and the task board.  *)
(* Text is modelled by TLA+ strings, read character by character.          *)
(***************************************************************************)
EXTENDS Integers, Sequences, FiniteSets, TLC

(***************************************************************************)
(* Program constants                                                       *)
(***************************************************************************)
maxToolResultChars == 100000
maxAgentIterations == 20
maxTodoItems == 20
defaultBashTimeout == 30000

initialReminder == "<reminder source=\"system\" topic=\"todos\">initial</reminder>"
nagReminder == "<reminder source=\"system\" topic=\"todos\">nag</reminder>"
systemPrompt == "You are a coding agent operating INSIDE the user's repository at "

(***************************************************************************)
(* strings, strconv, unicode: the library functions the code calls         *)
(***************************************************************************)
Char(s, i) == SubSeq(s, i, i)

IsSpace(c) == c \in {" ", "\t", "\n", "\r"}

RECURSIVE TrimLeft(_)
TrimLeft(s) ==
  IF Len(s) > 0 /\ IsSpace(Char(s, 1)) THEN TrimLeft(SubSeq(s, 2, Len(s))) ELSE s

RECURSIVE TrimRight(_)
TrimRight(s) ==
  IF Len(s) > 0 /\ IsSpace(Char(s, Len(s))) THEN TrimRight(SubSeq(s, 1, Len(s) - 1)) ELSE s

TrimSpace(s) == TrimRight(TrimLeft(s))

UpperLetters == "ABCDEFGHIJKLMNOPQRSTUVWXYZ"
LowerLetters == "abcdefghijklmnopqrstuvwxyz"

LowerChar(c) ==
  IF \E k \in 1..26 : Char(UpperLetters, k) = c
  THEN Char(LowerLetters, CHOOSE k \in 1..26 : Char(UpperLetters, k) = c)
  ELSE c

RECURSIVE ToLower(_)
ToLower(s) ==
  IF Len(s) = 0 THEN "" ELSE LowerChar(Char(s, 1)) \o ToLower(SubSeq(s, 2, Len(s)))

HasPrefix(s, p) == Len(s) >= Len(p) /\ SubSeq(s, 1, Len(p)) = p

Contains(s, t) ==
  \E i \in 1..(Len(s) - Len(t) + 1) : SubSeq(s, i, i + Len(t) - 1) = t

\* strings.Split(s, sep) for a one-character separator
RECURSIVE SplitAcc(_, _, _)
SplitAcc(s, sep, cur) ==
  IF Len(s) = 0 THEN <<cur>>
  ELSE IF Char(s, 1) = sep
       THEN <<cur>> \o SplitAcc(SubSeq(s, 2, Len(s)), sep, "")
       ELSE SplitAcc(SubSeq(s, 2, Len(s)), sep, cur \o Char(s, 1))

Split(s, sep) == SplitAcc(s, sep, "")

RECURSIVE Join(_, _)
Join(parts, sep) ==
  IF Len(parts) = 0 THEN ""
  ELSE IF Len(parts) = 1 THEN parts[1]
  ELSE parts[1] \o sep \o Join(Tail(parts), sep)

\* strings.ReplaceAll(s, old, new) for a non-empty old
RECURSIVE ReplaceAll(_, _, _)
ReplaceAll(s, old, new) ==
  IF Len(s) < Len(old) THEN s
  ELSE IF HasPrefix(s, old)
       THEN new \o ReplaceAll(SubSeq(s, Len(old) + 1, Len(s)), old, new)
       ELSE Char(s, 1) \o ReplaceAll(SubSeq(s, 2, Len(s)), old, new)

Digits == "0123456789"
IsDigit(c) == \E k \in 1..10 : Char(Digits, k) = c
DigitVal(c) == (CHOOSE k \in 1..10 : Char(Digits, k) = c) - 1

RECURSIVE DigitsVal(_, _)
DigitsVal(s, acc) ==
  IF Len(s) = 0 THEN acc ELSE DigitsVal(SubSeq(s, 2, Len(s)), acc * 10 + DigitVal(Char(s, 1)))

AllDigits(s) == Len(s) > 0 /\ \A i \in 1..Len(s) : IsDigit(Char(s, i))

NoInt == [n |-> 0, ok |-> FALSE]
SomeInt(n) == [n |-> n, ok |-> TRUE]

\* strconv.Atoi: [n, ok]; an optional sign, then decimal digits
AtoiDigits(negative, body) ==
  IF AllDigits(body)
  THEN SomeInt(IF negative THEN 0 - DigitsVal(body, 0) ELSE DigitsVal(body, 0))
  ELSE NoInt

Atoi(s) ==
  IF Len(s) > 0 /\ Char(s, 1) \in {"+", "-"}
  THEN AtoiDigits(Char(s, 1) = "-", SubSeq(s, 2, Len(s)))
  ELSE AtoiDigits(FALSE, s)

\* strconv.Itoa / FormatFloat('f', -1) of an integral value
Itoa(n) == ToString(n)

(***************************************************************************)
(* clampText                                                               *)
(***************************************************************************)
clampTextNoMarker(s, limit) ==
  IF limit <= 0 THEN ""
  ELSE IF Len(s) <= limit THEN s
  ELSE SubSeq(s, 1, limit)

clampText(s, limit) ==
  IF limit <= 0 THEN ""
  ELSE IF Len(s) <= limit THEN s
  ELSE SubSeq(s, 1, limit) \o "\n\n...<truncated " \o Itoa(Len(s) - limit) \o " chars>"

(***************************************************************************)
(* isDangerousCommand                                                      *)
(***************************************************************************)
danger == <<"rm -rf /", "shutdown", "reboot", "sudo ", "halt">>

ContainsToken(lowered) == \E k \in 1..Len(danger) : Contains(lowered, danger[k])

\* the test without the lower-casing, which C6 excludes
isDangerousCommandCaseSensitive(cmd) == ContainsToken(cmd)

isDangerousCommand(cmd) == ContainsToken(ToLower(cmd))

(***************************************************************************)
(* path/filepath on a Unix build (separator "/")                           *)
(***************************************************************************)
PathSeparator == "/"

IsAbs(p) == HasPrefix(p, "/")

\* the element stack of filepath.Clean: "." and empty elements are dropped,
\* ".." removes the element before it, stays when the path is relative and
\* nothing is left to remove, and is dropped at the root
RECURSIVE CleanSegs(_, _, _)
CleanSegs(segs, rooted, out) ==
  IF Len(segs) = 0 THEN out
  ELSE IF Head(segs) = "" \/ Head(segs) = "." THEN CleanSegs(Tail(segs), rooted, out)
  ELSE IF Head(segs) = ".."
       THEN IF Len(out) > 0 /\ out[Len(out)] # ".."
            THEN CleanSegs(Tail(segs), rooted, SubSeq(out, 1, Len(out) - 1))
            ELSE IF rooted THEN CleanSegs(Tail(segs), rooted, out)
                 ELSE CleanSegs(Tail(segs), rooted, Append(out, ".."))
       ELSE CleanSegs(Tail(segs), rooted, Append(out, Head(segs)))

CleanOut(rooted, out) ==
  IF rooted THEN "/" \o Join(out, "/")
  ELSE IF Len(out) = 0 THEN "." ELSE Join(out, "/")

Clean(p) ==
  IF p = "" THEN "." ELSE CleanOut(IsAbs(p), CleanSegs(Split(p, "/"), IsAbs(p), <<>>))

\* filepath.Join(a, b): empty elements are ignored, the rest joined and cleaned
FilepathJoin(a, b) ==
  IF a = "" /\ b = "" THEN ""
  ELSE Clean(IF a = "" THEN b ELSE IF b = "" THEN a ELSE a \o "/" \o b)

\* filepath.Abs(p) in a process whose working directory is cwd
Abs(cwd, p) == Clean(IF IsAbs(p) THEN p ELSE IF p = "" THEN cwd ELSE cwd \o "/" \o p)

\* filepath.Dir of a clean absolute path
DirOf(segs) == Clean(Join(SubSeq(segs, 1, Len(segs) - 1), "/") \o "/")

Dir(p) == DirOf(Split(p, "/"))

\* filepath.Rel(base, target) for a clean target at or below the clean base
Rel(base, target) ==
  IF target = base THEN "."
  ELSE IF base = "/" THEN SubSeq(target, 2, Len(target))
  ELSE SubSeq(target, Len(base) + 2, Len(target))

(***************************************************************************)
(* safePath: [ok, abs, err]                                                *)
(***************************************************************************)
PathError(text) == [ok |-> FALSE, abs |-> "", err |-> text]

\* the prefix test without the separator: a sibling whose name starts with
\* the root's name passes. C5 excludes it.
InsideNoSeparator(abs, workAbs) == HasPrefix(abs, workAbs)

\* line 839
Inside(abs, workAbs) == HasPrefix(abs, workAbs \o PathSeparator) \/ abs = workAbs

checkInside(abs, workAbs) ==
  IF ~Inside(abs, workAbs) THEN PathError("path escapes workspace")
  ELSE [ok |-> TRUE, abs |-> abs, err |-> ""]

\* lines 825-834
resolve(workDir, candidate) ==
  Abs(workDir, IF IsAbs(candidate) THEN Clean(candidate) ELSE FilepathJoin(workDir, candidate))

safePathOf(workDir, candidate) ==
  IF candidate = "" THEN PathError("path required")
  ELSE checkInside(resolve(workDir, candidate), Abs(workDir, workDir))

safePath(workDir, p) == safePathOf(workDir, TrimSpace(p))

(***************************************************************************)
(* Decoded JSON values (encoding/json into interface{}): a string, a       *)
(* number (float64; the model keeps integral numbers), a bool, null, an    *)
(* array or an object. An object is a function from its keys.              *)
(***************************************************************************)
JStr(s) == [t |-> "string", s |-> s]
JNum(n) == [t |-> "number", n |-> n]
JBool(b) == [t |-> "bool", b |-> b]
JNull == [t |-> "null"]
JArr(a) == [t |-> "array", a |-> a]
JObj(o) == [t |-> "object", o |-> o]

EmptyMap == [k \in {} |-> JNull]

\* Function.Arguments, a JSON text, is carried as what json.Unmarshal makes
\* of it: parse is "object", "null" (the text null: a nil map, no error),
\* "syntax" (not JSON) or "type" (JSON that is no object)
ArgsObject(o) == [parse |-> "object", obj |-> o]
ArgsNull == [parse |-> "null", obj |-> EmptyMap]
ArgsSyntax == [parse |-> "syntax", obj |-> EmptyMap]
ArgsType == [parse |-> "type", obj |-> EmptyMap]

\* json.Unmarshal([]byte(tc.Function.Arguments), &input): [err, text, input]
Unmarshal(args) ==
  CASE args.parse = "object" -> [err |-> FALSE, text |-> "", input |-> args.obj]
    [] args.parse = "null" -> [err |-> FALSE, text |-> "", input |-> EmptyMap]
    [] args.parse = "syntax" ->
         [err |-> TRUE, text |-> "unexpected end of JSON input", input |-> EmptyMap]
    [] OTHER ->
         [err |-> TRUE,
          text |-> "json: cannot unmarshal array into Go value of type map[string]interface {}",
          input |-> EmptyMap]

stringOf(v) ==
  CASE v.t = "string" -> v.s
    [] v.t = "number" -> Itoa(v.n)
    [] OTHER -> ""

getString(input, key) == IF key \in DOMAIN input THEN stringOf(input[key]) ELSE ""

\* lines 947-954
intOfString(trimmed) == IF trimmed = "" THEN NoInt ELSE Atoi(trimmed)

intOf(v) ==
  CASE v.t = "number" -> SomeInt(v.n)
    [] v.t = "string" -> intOfString(TrimSpace(v.s))
    [] OTHER -> NoInt

\* getOptionalInt: [n, ok]
getOptionalInt(input, key) == IF key \in DOMAIN input THEN intOf(input[key]) ELSE NoInt

orDefault(r, def) == IF r.ok THEN r.n ELSE def

getIntOrDefault(input, key, def) == orDefault(getOptionalInt(input, key), def)

toInt(v) == orDefault(intOf(v), 0)

(***************************************************************************)
(* TodoManager                                                             *)
(***************************************************************************)
TodoItem(id, content, status, activeForm) ==
  [ID |-> id, Content |-> content, Status |-> status, ActiveForm |-> activeForm]

ValidStatus(status) == status \in {"pending", "in_progress", "completed"}

\* lines 136-155: the checks on one item, "" when it passes
itemProblem(item, seenIDs) ==
  IF item.ID \in seenIDs THEN "duplicate todo id: " \o item.ID
  ELSE IF TrimSpace(item.Content) = "" THEN "todo content cannot be empty"
  ELSE IF TrimSpace(item.ActiveForm) = "" THEN "todo activeForm cannot be empty"
  ELSE IF ~ValidStatus(ToLower(item.Status))
       THEN "status must be one of: pending, in_progress, completed"
  ELSE ""

\* the validation loop of Update: the first error, or "" when there is none.
\* item.Status = status assigns to the loop's copy of the item, so the
\* lower-cased status never reaches the list that is stored.
RECURSIVE ValidateItems(_, _, _, _)
ValidateItems(items, i, seenIDs, inProgressCount) ==
  IF i > Len(items)
  THEN IF inProgressCount > 1 THEN "only one task can be in_progress at a time" ELSE ""
  ELSE IF itemProblem(items[i], seenIDs) # "" THEN itemProblem(items[i], seenIDs)
  ELSE ValidateItems(items, i + 1, seenIDs \cup {items[i].ID},
                     IF ToLower(items[i].Status) = "in_progress" THEN inProgressCount + 1
                     ELSE inProgressCount)

\* the colour escapes and the box glyphs are written in ASCII
todoPendingColor == "ESC[38;2;176;176;176m"
todoProgressColor == "ESC[38;2;120;200;255m"
todoCompletedColor == "ESC[38;2;34;139;34m"
strikethrough == "ESC[9m"
reset == "ESC[0m"

renderLine(todo) ==
  CASE todo.Status = "completed" ->
         todoCompletedColor \o strikethrough \o "[x] " \o todo.Content \o reset
    [] todo.Status = "in_progress" -> todoProgressColor \o "[ ] " \o todo.Content \o reset
    [] OTHER -> todoPendingColor \o "[ ] " \o todo.Content \o reset

\* lines 177-195: the loop of render over the slice it ranges over
renderLines(items) == Join([k \in 1..Len(items) |-> renderLine(items[k])], "\n")

render(items) ==
  IF Len(items) = 0 THEN todoPendingColor \o "[ ] No todos yet" \o reset
  ELSE Join([k \in 1..Len(items) |-> renderLine(items[k])], "\n")

stats(items) ==
  [total |-> Len(items),
   completed |-> Cardinality({k \in 1..Len(items) : items[k].Status = "completed"}),
   in_progress |-> Cardinality({k \in 1..Len(items) : items[k].Status = "in_progress"})]

\* a commit that stores the list before the error is looked at, which C8
\* excludes
commitAnyway(stored, items, problem) ==
  IF problem # "" THEN [err |-> TRUE, text |-> problem, items |-> items]
  ELSE [err |-> FALSE, text |-> render(items), items |-> items]

\* lines 163-168: [err, text, items]
commit(stored, items, problem) ==
  IF problem # "" THEN [err |-> TRUE, text |-> problem, items |-> stored]
  ELSE [err |-> FALSE, text |-> render(items), items |-> items]

\* Update without the check of the length, which C7 excludes
UpdateNoLimit(stored, items) == commit(stored, items, ValidateItems(items, 1, {}, 0))

\* TodoManager.Update on the stored list: [err, text, items]
Update(stored, items) ==
  IF Len(items) > maxTodoItems
  THEN [err |-> TRUE, text |-> "todo list is limited to " \o Itoa(maxTodoItems) \o " items",
        items |-> stored]
  ELSE commit(stored, items, ValidateItems(items, 1, {}, 0))

(***************************************************************************)
(* The file system the os calls act on: files maps the path of every       *)
(* regular file to its content, dirs is the set of directories. Calls fail *)
(* only for the reasons the tree itself gives (a missing file, a directory *)
(* in the place of a file, a file in the place of a directory).            *)
(* The world a tool acts on is [fs, io, exec, todo, rounds]: io logs each  *)
(* os call on a path, exec each command handed to bash.                    *)
(***************************************************************************)
IoCall(op, path) == [op |-> op, path |-> path]

Logged(w, op, path) == [w EXCEPT !.io = Append(@, IoCall(op, path))]

\* a clean absolute directory and the directories above it
RECURSIVE Ancestors(_)
Ancestors(dir) == IF dir = "/" THEN {"/"} ELSE {dir} \cup Ancestors(Dir(dir))

\* The operating system follows the symbolic links on the way of a path it
\* is given: fs.links maps the path of a link to its target, a clean absolute
\* path. LinksOn is the links that are the path or a directory on its way.
MaxLinkDepth == 2

LinksOn(links, path) == {l \in DOMAIN links : path = l \/ HasPrefix(path, l \o "/")}

Followed(links, l, path) == links[l] \o SubSeq(path, Len(l) + 1, Len(path))

\* the file or directory a path names, the outermost link followed first
RECURSIVE RealPath(_, _, _)
RealPath(links, path, depth) ==
  IF depth = 0 \/ LinksOn(links, path) = {} THEN path
  ELSE RealPath(links,
                Followed(links,
                         CHOOSE l \in LinksOn(links, path) :
                           \A m \in LinksOn(links, path) : Len(l) <= Len(m),
                         path),
                depth - 1)

readReal(fs, abs, real) ==
  IF real \in DOMAIN fs.files THEN [err |-> FALSE, text |-> "", data |-> fs.files[real]]
  ELSE IF real \in fs.dirs
       THEN [err |-> TRUE, text |-> "read " \o abs \o ": is a directory", data |-> ""]
       ELSE [err |-> TRUE, text |-> "open " \o abs \o ": no such file or directory", data |-> ""]

\* os.ReadFile: [err, text, data]
ReadFile(fs, abs) == readReal(fs, abs, RealPath(fs.links, abs, MaxLinkDepth))

mkdirReal(fs, dir, real) ==
  IF \E a \in Ancestors(real) : a \in DOMAIN fs.files
  THEN [err |-> TRUE, text |-> "mkdir " \o dir \o ": not a directory", fs |-> fs]
  ELSE [err |-> FALSE, text |-> "", fs |-> [fs EXCEPT !.dirs = @ \cup Ancestors(real)]]

\* os.MkdirAll: [err, text, fs]
MkdirAll(fs, dir) == mkdirReal(fs, dir, RealPath(fs.links, dir, MaxLinkDepth))

writeReal(fs, abs, real, content, appendMode) ==
  IF real \in fs.dirs
  THEN [err |-> TRUE, text |-> "open " \o abs \o ": is a directory", fs |-> fs]
  ELSE IF Dir(real) \notin fs.dirs
       THEN [err |-> TRUE, text |-> "open " \o abs \o ": no such file or directory", fs |-> fs]
       ELSE [err |-> FALSE, text |-> "",
             fs |-> [fs EXCEPT !.files =
                       (real :> ((IF appendMode /\ real \in DOMAIN fs.files THEN fs.files[real]
                                  ELSE "") \o content)) @@ @]]

\* os.WriteFile, and os.OpenFile with O_APPEND followed by WriteString: [err, text, fs]
WriteFile(fs, abs, content, appendMode) ==
  writeReal(fs, abs, RealPath(fs.links, abs, MaxLinkDepth), content, appendMode)

Fail(text, w) == [err |-> TRUE, text |-> text, w |-> w]
Done(text, w) == [err |-> FALSE, text |-> text, w |-> w]

(***************************************************************************)
(* runBash. env is what running the command gives: kind "ok" (exit 0),     *)
(* "exit" (a non-zero exit status), "timeout" or "fail" (bash could not be *)
(* started), with the captured stdout and stderr. What a command does to   *)
(* the file system is outside the model.                                   *)
(***************************************************************************)
\* lines 592-595
bashOutput(joined) == IF joined = "" THEN "(no output)" ELSE joined

\* lines 588-602, the command having run in world ran
bashResult(timeout, env, ran) ==
  IF env.kind = "timeout" \/ timeout <= 0 THEN Done("(timeout)", ran)
  ELSE IF env.kind = "fail" THEN Fail("exec: \"bash\": executable file not found in $PATH", ran)
  ELSE Done(clampText(bashOutput(TrimSpace(env.stdout \o "\n" \o env.stderr))
                      \o (IF env.kind = "exit" THEN "\n(exit error: exit status 1)" ELSE ""),
                      maxToolResultChars), ran)

\* lines 571-581: the exec log takes every command handed to cmd.Run, with
\* the timeout of its context; a context with a timeout of zero or less has
\* expired already, and the outcome is then "(timeout)" whatever the command
bashCommand(cfg, command, timeout, w, env) ==
  IF command = "" THEN Fail("missing bash.command", w)
  ELSE IF isDangerousCommand(command) THEN Fail("blocked dangerous command", w)
  ELSE bashResult(timeout, env,
                  [w EXCEPT !.exec = Append(@, [command |-> command, timeout_ms |-> timeout,
                                               dir |-> cfg.WorkDir])])

runBash(cfg, input, w, env) ==
  bashCommand(cfg, TrimSpace(getString(input, "command")),
              getIntOrDefault(input, "timeout_ms", defaultBashTimeout), w, env)

(***************************************************************************)
(* runRead                                                                 *)
(***************************************************************************)
\* lines 618-627: the 0-based start for n lines
readStart(sl, n) ==
  IF ~sl.ok THEN 0
  ELSE IF sl.n < 1 THEN 0
  ELSE IF sl.n - 1 > n THEN n ELSE sl.n - 1

\* an end_line that is taken as the first line left out
readEndExclusive(el, start, n) ==
  IF el.ok /\ el.n >= 0
  THEN IF el.n - 1 < start THEN start ELSE IF el.n - 1 > n THEN n ELSE el.n - 1
  ELSE n

\* lines 628-639
readEnd(el, start, n) ==
  IF el.ok /\ el.n >= 0
  THEN IF el.n < start THEN start ELSE IF el.n > n THEN n ELSE el.n
  ELSE n

\* lines 640-643
sliceLines(lines, start, end) == Join(SubSeq(lines, (IF start > end THEN end ELSE start) + 1, end), "\n")

readSlice(lines, start, el) == sliceLines(lines, start, readEnd(el, start, Len(lines)))

readLines(input, lines) ==
  readSlice(lines, readStart(getOptionalInt(input, "start_line"), Len(lines)),
            getOptionalInt(input, "end_line"))

\* lines 611-645
readData(input, rd, w1) ==
  IF rd.err THEN Fail(rd.text, w1)
  ELSE Done(clampText(readLines(input, Split(rd.data, "\n")),
                      getIntOrDefault(input, "max_chars", maxToolResultChars)), w1)

readAt(input, sp, w) ==
  IF ~sp.ok THEN Fail(sp.err, w)
  ELSE readData(input, ReadFile(w.fs, sp.abs), Logged(w, "read", sp.abs))

runRead(cfg, input, w) == readAt(input, safePath(cfg.WorkDir, getString(input, "path")), w)

(***************************************************************************)
(* runWrite                                                                *)
(***************************************************************************)
\* lines 659-678
writeDone(cfg, abs, content, wr, w2) ==
  IF wr.err THEN Fail(wr.text, w2)
  ELSE Done("wrote " \o Itoa(Len(content)) \o " bytes to " \o Rel(cfg.WorkDir, abs), w2)

writeFileStep(cfg, abs, content, mode, wr, w1) ==
  writeDone(cfg, abs, content, wr,
            Logged([w1 EXCEPT !.fs = wr.fs], IF mode = "append" THEN "append" ELSE "write", abs))

\* lines 656-658
writeMade(cfg, abs, content, mode, mk, w1) ==
  IF mk.err THEN Fail(mk.text, w1)
  ELSE writeFileStep(cfg, abs, content, mode, WriteFile(mk.fs, abs, content, mode = "append"), w1)

writeMkdir(cfg, abs, content, mode, mk, w) ==
  writeMade(cfg, abs, content, mode, mk, Logged([w EXCEPT !.fs = mk.fs], "mkdir", Dir(abs)))

writeAt(cfg, input, sp, w) ==
  IF ~sp.ok THEN Fail(sp.err, w)
  ELSE writeMkdir(cfg, sp.abs, getString(input, "content"), ToLower(getString(input, "mode")),
                  MkdirAll(w.fs, Dir(sp.abs)), w)

runWrite(cfg, input, w) == writeAt(cfg, input, safePath(cfg.WorkDir, getString(input, "path")), w)

(***************************************************************************)
(* runEdit                                                                 *)
(***************************************************************************)
\* lines 701-704, 726-729, 748-751: the file is written back
editWritten(abs, text, wr, w1) ==
  IF wr.err THEN Fail(wr.text, Logged(w1, "write", abs))
  ELSE Done(text, Logged([w1 EXCEPT !.fs = wr.fs], "write", abs))

editWrite(abs, updated, text, w1) ==
  editWritten(abs, text, WriteFile(w1.fs, abs, updated, FALSE), w1)

\* lines 695-704
editReplaced(abs, updated, w1) ==
  editWrite(abs, updated, "replace done (" \o Itoa(Len(updated)) \o " bytes)", w1)

\* a replace that empties the file before it refuses an empty find
editReplaceTruncatesFirst(abs, input, text, w1) ==
  IF getString(input, "find") = ""
  THEN Fail("edit_text.replace missing find", [w1 EXCEPT !.fs = WriteFile(w1.fs, abs, "", FALSE).fs])
  ELSE editReplaced(abs, ReplaceAll(text, getString(input, "find"), getString(input, "replace")), w1)

editReplace(abs, input, text, w1) ==
  IF getString(input, "find") = "" THEN Fail("edit_text.replace missing find", w1)
  ELSE editReplaced(abs, ReplaceAll(text, getString(input, "find"), getString(input, "replace")), w1)

\* lines 709-725: the lines with newText put after the line of index idx
insertLines(lines, idx, newText) ==
  IF idx >= 0
  THEN SubSeq(lines, 1, idx + 1) \o <<newText>> \o SubSeq(lines, idx + 2, Len(lines))
  ELSE <<newText>> \o lines

insertIndex(insertAfter, n) ==
  IF insertAfter < -1 THEN -1 ELSE IF insertAfter >= n THEN n - 1 ELSE insertAfter

editInserted(abs, lines, insertAfter, newText, w1) ==
  editWrite(abs, Join(insertLines(lines, insertIndex(insertAfter, Len(lines)), newText), "\n"),
            "inserted after line " \o Itoa(insertAfter), w1)

editInsert(abs, input, text, w1) ==
  editInserted(abs, Split(text, "\n"), getIntOrDefault(input, "insert_after", -1),
               getString(input, "new_text"), w1)

\* lines 740-751
clampIndex(i, n) == IF i > n THEN n ELSE i

\* a range that takes the line of index end as well
deleteLinesThroughEnd(lines, start, end) ==
  SubSeq(lines, 1, start) \o SubSeq(lines, end + 2, Len(lines))

deleteLines(lines, start, end) == SubSeq(lines, 1, start) \o SubSeq(lines, end + 1, Len(lines))

editDeleted(abs, lines, start, end, w1) ==
  editWrite(abs, Join(deleteLines(lines, start, end), "\n"),
            "deleted lines [" \o Itoa(start) \o ", " \o Itoa(end) \o ")", w1)

editDeleteLines(abs, lines, start, end, w1) ==
  editDeleted(abs, lines, clampIndex(start, Len(lines)), clampIndex(end, Len(lines)), w1)

\* lines 735-739
editDeleteRange(abs, text, start, end, w1) ==
  IF start < 0 \/ end < start THEN Fail("edit_text.delete_range invalid range", w1)
  ELSE editDeleteLines(abs, Split(text, "\n"), start, end, w1)

\* lines 731-736
editDelete(abs, input, text, w1) ==
  IF "range" \in DOMAIN input /\ input["range"].t = "array" /\ Len(input["range"].a) = 2
  THEN editDeleteRange(abs, text, toInt(input["range"].a[1]), toInt(input["range"].a[2]), w1)
  ELSE Fail("edit_text.delete_range invalid range", w1)

\* lines 692-754
editAction(abs, input, action, text, w1) ==
  CASE action = "replace" -> editReplace(abs, input, text, w1)
    [] action = "insert" -> editInsert(abs, input, text, w1)
    [] action = "delete_range" -> editDelete(abs, input, text, w1)
    [] OTHER -> Fail("unsupported edit_text.action: " \o action, w1)

editData(abs, input, rd, w1) ==
  IF rd.err THEN Fail(rd.text, w1)
  ELSE editAction(abs, input, ToLower(getString(input, "action")), rd.data, w1)

editAt(input, sp, w) ==
  IF ~sp.ok THEN Fail(sp.err, w)
  ELSE editData(sp.abs, input, ReadFile(w.fs, sp.abs), Logged(w, "read", sp.abs))

runEdit(cfg, input, w) == editAt(input, safePath(cfg.WorkDir, getString(input, "path")), w)

(***************************************************************************)
(* runTodoUpdate                                                           *)
(***************************************************************************)
\* lines 775-792: the TodoItem built from the i-th (0-based) raw item
itemOf(itemMap, i) ==
  TodoItem(IF getString(itemMap, "id") = "" THEN Itoa(i + 1) ELSE getString(itemMap, "id"),
           getString(itemMap, "content"),
           IF getString(itemMap, "status") = "" THEN "pending" ELSE getString(itemMap, "status"),
           getString(itemMap, "activeForm"))

\* lines 805-817
todoSummary(st) ==
  IF st.total = 0 THEN "No todos have been created."
  ELSE "Status updated: " \o Itoa(st.completed) \o " completed, "
       \o Itoa(st.in_progress) \o " in progress."

\* lines 795-817; the board is what Update left
todoUpdatedKeepsCounter(up, w) ==
  IF up.err THEN Fail(up.text, [w EXCEPT !.todo = up.items])
  ELSE Done(up.text \o "\n\n" \o todoSummary(stats(up.items)), [w EXCEPT !.todo = up.items])

todoUpdated(up, w) ==
  IF up.err THEN Fail(up.text, [w EXCEPT !.todo = up.items])
  ELSE Done(up.text \o "\n\n" \o todoSummary(stats(up.items)),
            [w EXCEPT !.todo = up.items, !.rounds = 0])

\* lines 768-795
todoItemsOf(itemsList, bad, w) ==
  IF bad # {}
  THEN Fail("item " \o Itoa((CHOOSE k \in bad : \A j \in bad : k <= j) - 1) \o " is not an object", w)
  ELSE todoUpdated(Update(w.todo, [k \in 1..Len(itemsList) |-> itemOf(itemsList[k].o, k - 1)]), w)

todoList(itemsList, w) ==
  todoItemsOf(itemsList, {k \in 1..Len(itemsList) : itemsList[k].t # "object"}, w)

runTodoUpdate(cfg, input, w) ==
  IF "items" \notin DOMAIN input THEN Fail("missing items parameter", w)
  ELSE IF input["items"].t # "array" THEN Fail("items must be an array", w)
  ELSE todoList(input["items"].a, w)

(***************************************************************************)
(* Messages                                                                *)
(***************************************************************************)
\* Message.Content is a string or a list of content blocks
Plain(text) == [kind |-> "string", text |-> text, blocks |-> <<>>]
Blocks(blocks) == [kind |-> "blocks", text |-> "", blocks |-> blocks]
ContentBlock(text) == [Type |-> "text", Text |-> text]

Message(role, content, toolCalls, toolCallID, name) ==
  [Role |-> role, Content |-> content, ToolCalls |-> toolCalls,
   ToolCallID |-> toolCallID, Name |-> name]

ToolCall(id, name, args) == [ID |-> id, Name |-> name, Arguments |-> args]

ToolMessage(tc, result) == Message("tool", Plain(result), <<>>, tc.ID, tc.Name)

(***************************************************************************)
(* dispatchToolCall: [msg, w]                                              *)
(***************************************************************************)
runTool(cfg, name, input, w, env) ==
  CASE name = "bash" -> runBash(cfg, input, w, env)
    [] name = "read_file" -> runRead(cfg, input, w)
    [] name = "write_file" -> runWrite(cfg, input, w)
    [] name = "edit_text" -> runEdit(cfg, input, w)
    [] name = "TodoWrite" -> runTodoUpdate(cfg, input, w)
    [] OTHER -> Fail("unknown tool: " \o name, w)

\* lines 555-566
toolResult(cfg, tc, r) == [msg |-> ToolMessage(tc, clampText(r.text, cfg.MaxResult)), w |-> r.w]

\* a parse error reported without the id of the call, which C9 excludes
dispatchParsedDropsId(cfg, tc, parsed, w, env) ==
  IF parsed.err
  THEN [msg |-> ToolMessage([tc EXCEPT !.ID = ""], "Error parsing arguments: " \o parsed.text),
        w |-> w]
  ELSE toolResult(cfg, tc, runTool(cfg, tc.Name, parsed.input, w, env))

\* lines 518-553
dispatchParsed(cfg, tc, parsed, w, env) ==
  IF parsed.err
  THEN [msg |-> ToolMessage(tc, "Error parsing arguments: " \o parsed.text), w |-> w]
  ELSE toolResult(cfg, tc, runTool(cfg, tc.Name, parsed.input, w, env))

dispatchToolCall(cfg, tc, w, env) == dispatchParsed(cfg, tc, Unmarshal(tc.Arguments), w, env)

(***************************************************************************)
(* The model endpoint's reply to one request, and callOpenAI's reading of  *)
(* it. A reply is a transport failure (net = FALSE), or a status with a    *)
(* body: the JSON document doc (valid = FALSE when the body is no JSON) or *)
(* the event stream lines, as the request's stream flag asked.             *)
(***************************************************************************)
Choice(message, finishReason) == [Message |-> message, FinishReason |-> finishReason]
APIResponse(choices) == [Choices |-> choices]

\* one line of an event stream: kind is "blank", "event" (no "data: "
\* prefix), "done" (data: [DONE]), "bad" (data: and malformed JSON), "chunk"
\* (data: and a JSON chunk whose first choice, if has is TRUE, carries a
\* content delta, a finish reason and tool-call deltas) or "ioerror" (the
\* read fails here)
Line(kind, has, content, finish, toolCalls) ==
  [kind |-> kind, has |-> has, content |-> content, finish |-> finish, toolCalls |-> toolCalls]
Chunk(content, finish, toolCalls) == Line("chunk", TRUE, content, finish, toolCalls)
BlankLine == Line("blank", FALSE, "", "", <<>>)
DoneLine == Line("done", FALSE, "", "", <<>>)

\* the event stream by which an endpoint delivers the first choice of doc:
\* the content, then the tool calls, then the finish reason, then [DONE]
SSEChoice(c) ==
  (IF c.Message.Content.text = "" THEN <<>>
   ELSE <<Chunk(c.Message.Content.text, "", <<>>), BlankLine>>)
  \o (IF Len(c.Message.ToolCalls) = 0 THEN <<>>
      ELSE <<Chunk("", "", c.Message.ToolCalls), BlankLine>>)
  \o <<Chunk("", c.FinishReason, <<>>), BlankLine, DoneLine>>

SSE(doc) == IF Len(doc.Choices) = 0 THEN <<DoneLine>> ELSE SSEChoice(doc.Choices[1])

Reply(net, status, valid, doc) ==
  [net |-> net, status |-> status, valid |-> valid, doc |-> doc, lines |-> SSE(doc)]

CallFailed(text) == [err |-> TRUE, text |-> text, resp |-> APIResponse(<<>>)]
CallDone(resp) == [err |-> FALSE, text |-> "", resp |-> resp]

handleNonStreamingResponse(cfg, reply) ==
  IF reply.status >= 400 THEN CallFailed("api error: status " \o Itoa(reply.status))
  ELSE IF ~reply.valid THEN CallFailed("invalid character '<' looking for beginning of value")
  ELSE CallDone(reply.doc)

\* the read loop of handleStreamingResponse: [err, content]
RECURSIVE readStreamDropsFinishDelta(_, _)
readStreamDropsFinishDelta(lines, finalContent) ==
  IF Len(lines) = 0 THEN [err |-> FALSE, content |-> finalContent]
  ELSE IF Head(lines).kind = "ioerror" THEN [err |-> TRUE, content |-> finalContent]
  ELSE IF Head(lines).kind \in {"blank", "event", "bad"}
       THEN readStreamDropsFinishDelta(Tail(lines), finalContent)
  ELSE IF Head(lines).kind = "done" THEN [err |-> FALSE, content |-> finalContent]
  ELSE IF ~Head(lines).has THEN readStreamDropsFinishDelta(Tail(lines), finalContent)
  ELSE IF Head(lines).finish # "" THEN [err |-> FALSE, content |-> finalContent]
  ELSE readStreamDropsFinishDelta(Tail(lines), finalContent \o Head(lines).content)

RECURSIVE readStream(_, _)
readStream(lines, finalContent) ==
  IF Len(lines) = 0 THEN [err |-> FALSE, content |-> finalContent]
  ELSE IF Head(lines).kind = "ioerror" THEN [err |-> TRUE, content |-> finalContent]
  ELSE IF Head(lines).kind \in {"blank", "event", "bad"} THEN readStream(Tail(lines), finalContent)
  ELSE IF Head(lines).kind = "done" THEN [err |-> FALSE, content |-> finalContent]
  ELSE IF ~Head(lines).has THEN readStream(Tail(lines), finalContent)
  ELSE IF Head(lines).finish # ""
       THEN [err |-> FALSE, content |-> finalContent \o Head(lines).content]
       ELSE readStream(Tail(lines), finalContent \o Head(lines).content)

\* a decoder that returns no choice when it has accumulated no text
streamResultNoneWhenEmpty(read) ==
  IF read.err THEN CallFailed("error reading stream: unexpected EOF")
  ELSE IF read.content = "" THEN CallDone(APIResponse(<<>>))
  ELSE CallDone(APIResponse(<<Choice(Message("assistant", Plain(read.content), <<>>, "", ""),
                                     "stop")>>))

streamResult(read) ==
  IF read.err THEN CallFailed("error reading stream: unexpected EOF")
  ELSE CallDone(APIResponse(<<Choice(Message("assistant", Plain(read.content), <<>>, "", ""),
                                     "stop")>>))

handleStreamingResponse(cfg, reply) ==
  IF reply.status >= 400 THEN CallFailed("api error: status " \o Itoa(reply.status))
  ELSE streamResult(readStream(reply.lines, ""))

callOpenAI(cfg, reply) ==
  IF ~reply.net THEN CallFailed("Post: dial tcp: connection refused")
  ELSE IF cfg.Stream THEN handleStreamingResponse(cfg, reply)
  ELSE handleNonStreamingResponse(cfg, reply)

(***************************************************************************)
(* ensureContextBlock, injectReminders                                     *)
(***************************************************************************)
ensureContextBlockAlways(pending, text) == Append(pending, ContentBlock(text))

ensureContextBlock(pending, text) ==
  IF \E k \in 1..Len(pending) : pending[k].Text = text THEN pending
  ELSE Append(pending, ContentBlock(text))

\* [content, pending]
injectRemindersKeepsPending(pending, userText) ==
  IF Len(pending) = 0 THEN [content |-> Plain(userText), pending |-> pending]
  ELSE [content |-> Blocks(Append(pending, ContentBlock(userText))), pending |-> pending]

injectReminders(pending, userText) ==
  IF Len(pending) = 0 THEN [content |-> Plain(userText), pending |-> pending]
  ELSE [content |-> Blocks(Append(pending, ContentBlock(userText))), pending |-> <<>>]

(***************************************************************************)
(* State                                                                   *)
(***************************************************************************)
VARIABLES
  cfg,                  \* the Config loadConfig returned
  pc,                   \* where the program is
  entry,                \* the messages query was called with
  messages,             \* query's messages, the history it returns
  fullMessages,         \* query's fullMessages, what is sent to the model
  idx,                  \* query's loop counter
  choice,               \* resp.Choices[0] of the round under way
  tcIdx,                \* position in the round's tool calls (1-based)
  wire,                 \* the endpoint's reply to the latest model call
  responses,            \* the responses callOpenAI returned to this query
  modelCalls,           \* the number of model calls of this query
  retErr,               \* the error query returned ("" for nil)
  fs,                   \* the file system
  ioLog,                \* the os calls made on paths
  execLog,              \* the commands handed to bash
  todoItems,            \* todoBoard.items
  roundsWithoutTodo,    \* agentState.roundsWithoutTodo
  pendingContextBlocks, \* pendingContextBlocks
  call,                 \* the tool call handed to dispatchToolCall
  toolMsg,              \* the message dispatchToolCall returned last
  dispatched,           \* the tool calls dispatched so far
  history,              \* main's history
  turn,                 \* the number of user lines main has read
  script,               \* what the endpoint does in each turn of the session
  given,                \* the arguments of a function applied on its own
  result,               \* what that function returned
  threads,              \* the goroutines that call into shared state, each with its locals
  mu,                   \* the holder of each mutex (0 when it is free)
  spin                  \* the spinner: its fields and the channels it made

vars == <<cfg, pc, entry, messages, fullMessages, idx, choice, tcIdx, wire, responses,
          modelCalls, retErr, fs, ioLog, execLog, todoItems, roundsWithoutTodo,
          pendingContextBlocks, call, toolMsg, dispatched, history, turn, script,
          given, result, threads, mu, spin>>

queryVars == <<entry, messages, fullMessages, idx, choice, tcIdx, wire, responses,
               modelCalls, retErr>>

mainVars == <<history, turn, script>>

threadVars == <<threads, mu, spin>>

applyVars == <<given, result, threadVars>>

\* tm.mu of the task board and agentState.mu, both free
\* lines 240-245: the spinner newSpinner returns; no channel has been made.
\* Channels are numbered as they are made (0 is the nil channel) and closed
\* holds those that have been closed.
NoSpinner == [running |-> FALSE, stopCh |-> 0, doneCh |-> 0, mu |-> 0, made |-> 0,
              closed |-> {}, panicked |-> FALSE]

Unlocked == [board |-> 0, state |-> 0]

World == [fs |-> fs, io |-> ioLog, exec |-> execLog, todo |-> todoItems,
          rounds |-> roundsWithoutTodo]

SetWorld(w) ==
  /\ fs' = w.fs
  /\ ioLog' = w.io
  /\ execLog' = w.exec
  /\ todoItems' = w.todo
  /\ roundsWithoutTodo' = w.rounds

(***************************************************************************)
(* Bounds and inputs                                                       *)
(***************************************************************************)
defaultMaxTokens == 8192
SmallMaxResult == 16
nagThreshold == 10
minBashTimeout == 1000
maxBashTimeout == 120000
MaxVariedRounds == 1
MaxPathLen == 4
MaxTurns == 12
MaxEventfulTurns == 1
MaxLines == 3
MaxTextLen == 3
MaxThreads == 2

Config(workDir, maxResult, stream) ==
  [WorkDir |-> workDir, MaxResult |-> maxResult, Stream |-> stream]

NoMessage == Message("", Plain(""), <<>>, "", "")
NoChoice == Choice(NoMessage, "")
NoCall == ToolCall("", "", ArgsNull)
NoOutcome == [kind |-> "ok", stdout |-> "", stderr |-> ""]

\* what running a bash command may give
BashOutcomes ==
  { [kind |-> "ok", stdout |-> "main.go\n", stderr |-> ""],
    [kind |-> "ok", stdout |-> "", stderr |-> ""],
    [kind |-> "exit", stdout |-> "", stderr |-> "ls: no such file\n"],
    [kind |-> "timeout", stdout |-> "", stderr |-> ""],
    [kind |-> "fail", stdout |-> "", stderr |-> ""] }

OutcomesOf(tc) == IF tc.Name = "bash" THEN BashOutcomes ELSE {NoOutcome}

InitFs ==
  [dirs |-> {"/", "/w", "/etc"},
   files |-> [f \in {"/w/main.go", "/w/a", "/a", "/wa", "/etc/passwd"} |->
                IF f = "/w/main.go" THEN "package main\nfunc main() {}\n" ELSE "data of " \o f],
   links |-> [l \in {} |-> ""]]

\* the same workspace with symbolic links in it: to a directory and to a file
\* outside it, to a link, and to a directory inside it
LinkedFs ==
  [dirs |-> InitFs.dirs \cup {"/w/sub"},
   files |-> ("/w/sub/b" :> "data of /w/sub/b") @@ InitFs.files,
   links |-> ("/w/out" :> "/etc") @@ ("/w/pw" :> "/etc/passwd") @@ ("/w/hop" :> "/w/out")
             @@ ("/w/in" :> "/w/sub")]

(***************************************************************************)
(* The tool calls and the replies the model endpoint sends in the model    *)
(***************************************************************************)
Str1(k, v) == (k :> JStr(v))

TodoRaw(id, content, status, activeForm) ==
  JObj([id |-> JStr(id), content |-> JStr(content), status |-> JStr(status),
        activeForm |-> JStr(activeForm)])

T_ls == ToolCall("", "bash", ArgsObject(Str1("command", "ls")))
T_sudo == ToolCall("", "bash", ArgsObject(Str1("command", "sudo rm -rf /tmp")))
T_bashEmpty == ToolCall("", "bash", ArgsObject(EmptyMap))
T_badJson == ToolCall("", "bash", ArgsSyntax)
T_notObject == ToolCall("", "read_file", ArgsType)
T_unknown == ToolCall("", "web_search", ArgsObject(Str1("q", "x")))
T_readEscape == ToolCall("", "read_file", ArgsObject(Str1("path", "../etc/passwd")))
T_read == ToolCall("", "read_file", ArgsObject(Str1("path", "main.go")))
T_readNew == ToolCall("", "read_file", ArgsObject(Str1("path", "out/a.txt")))
T_write ==
  ToolCall("", "write_file", ArgsObject(Str1("path", "out/a.txt") @@ Str1("content", "hi\nthere")))
T_editNoAction == ToolCall("", "edit_text", ArgsObject(Str1("path", "main.go")))
T_edit ==
  ToolCall("", "edit_text",
           ArgsObject(Str1("path", "main.go") @@ Str1("action", "replace")
                      @@ Str1("find", "main") @@ Str1("replace", "m")))
T_todoOk ==
  ToolCall("", "TodoWrite",
           ArgsObject(("items" :> JArr(<<TodoRaw("", "plan", "in_progress", "planning"),
                                        TodoRaw("", "code", "", "coding")>>))))
T_todoTwoActive ==
  ToolCall("", "TodoWrite",
           ArgsObject(("items" :> JArr(<<TodoRaw("a", "plan", "in_progress", "planning"),
                                        TodoRaw("b", "code", "in_progress", "coding")>>))))
T_todoNoItems == ToolCall("", "TodoWrite", ArgsObject(EmptyMap))

\* the endpoint numbers the tool calls of one response
WithIDs(calls) == [k \in 1..Len(calls) |-> [calls[k] EXCEPT !.ID = "call_" \o Itoa(k)]]

FillerCalls == WithIDs(<<T_read>>)

VariedCallLists ==
  { WithIDs(l) : l \in
      { <<T_ls>>, <<T_sudo, T_ls>>, <<T_badJson, T_notObject>>, <<T_unknown, T_bashEmpty>>,
        <<T_readEscape>>, <<T_write, T_readNew>>, <<T_editNoAction, T_edit>>,
        <<T_todoOk>>, <<T_todoTwoActive, T_todoNoItems>>, <<T_todoOk, T_todoTwoActive>> } }

Assistant(text, calls) == Message("assistant", Plain(text), calls, "", "")

StopDoc == APIResponse(<<Choice(Assistant("All done.", <<>>), "stop")>>)
ToolsDoc(calls) == APIResponse(<<Choice(Assistant("", calls), "tool_calls")>>)
LengthDoc == APIResponse(<<Choice(Assistant("Let me", FillerCalls), "length")>>)
EmptyToolsDoc == APIResponse(<<Choice(Assistant("", <<>>), "tool_calls")>>)
NoChoicesDoc == APIResponse(<<>>)

TailDocs == {ToolsDoc(FillerCalls), StopDoc, LengthDoc, EmptyToolsDoc, NoChoicesDoc}
VariedDocs == {ToolsDoc(l) : l \in VariedCallLists}

\* the replies to the model call of round i (0-based): any document in the
\* first MaxVariedRounds rounds, afterwards the documents of TailDocs; and
\* in every round a refused connection, an error status and a body that is
\* no JSON
Replies(i) ==
  {Reply(TRUE, 200, TRUE, d) : d \in (IF i < MaxVariedRounds THEN VariedDocs ELSE {}) \cup TailDocs}
  \cup {Reply(FALSE, 0, TRUE, NoChoicesDoc), Reply(TRUE, 500, TRUE, NoChoicesDoc),
        Reply(TRUE, 200, FALSE, NoChoicesDoc)}

UserMessage(content) == Message("user", content, <<>>, "", "")

\* the history main holds after n turns that each ended with a plain answer
RECURSIVE PriorTurns(_)
PriorTurns(n) ==
  IF n = 0 THEN <<>>
  ELSE PriorTurns(n - 1)
       \o <<UserMessage(IF n = 1 THEN Blocks(<<ContentBlock(initialReminder), ContentBlock("hi")>>)
                        ELSE Plain("go on")),
            Assistant("ok", <<>>)>>

\* the history main passes to query in turn n + 1
EntryHistory(n) ==
  PriorTurns(n)
  \o <<UserMessage(IF n = 0 THEN Blocks(<<ContentBlock(initialReminder), ContentBlock("hi")>>)
                   ELSE Plain("go on"))>>

EntryTurns == {0, nagThreshold}

(***************************************************************************)
(* query                                                                   *)
(***************************************************************************)
SystemMessage(workDir) == Message("system", Plain(systemPrompt \o workDir), <<>>, "", "")

\* a round test that looks at the tool calls alone, which C2 excludes
IsToolRoundAnyFinish(c) == Len(c.Message.ToolCalls) > 0

\* line 411
IsToolRound(c) == c.FinishReason = "tool_calls" /\ Len(c.Message.ToolCalls) > 0

\* a loop that runs once more, which C1 excludes
InLoopOnceMore(i) == i <= maxAgentIterations

\* line 385: the loop condition
InLoop(i) == i < maxAgentIterations

\* the tool calls taken from the last to the first, which C3 excludes
NextCallReversed(c, i) == c.Message.ToolCalls[Len(c.Message.ToolCalls) + 1 - i]

\* line 413: the range loop takes the tool calls in the order of the slice
NextCall(c, i) == c.Message.ToolCalls[i]

\* lines 375-383: the system prompt goes in front of the messages sent
QueryStart ==
  /\ pc = "enter"
  /\ fullMessages' = <<SystemMessage(cfg.WorkDir)>> \o messages
  /\ idx' = 0
  /\ pc' = "call"
  /\ UNCHANGED <<cfg, entry, messages, choice, tcIdx, wire, responses, modelCalls, retErr,
                 fs, ioLog, execLog, todoItems, roundsWithoutTodo, pendingContextBlocks,
                 call, toolMsg, dispatched, mainVars, applyVars>>

Return(err) ==
  /\ retErr' = err
  /\ pc' = "returned"

\* lines 398-429: the first choice is taken; a round of tool calls starts,
\* or the turn is complete
RoundNagsAtThreshold(c) ==
  /\ choice' = c
  /\ messages' = Append(messages, c.Message)
  /\ fullMessages' = Append(fullMessages, c.Message)
  /\ IF IsToolRound(c)
     THEN /\ pc' = "tools"
          /\ tcIdx' = 1
          /\ UNCHANGED <<retErr, roundsWithoutTodo, pendingContextBlocks>>
     ELSE /\ roundsWithoutTodo' = roundsWithoutTodo + 1
          /\ pendingContextBlocks' =
               IF roundsWithoutTodo + 1 >= nagThreshold
               THEN ensureContextBlock(pendingContextBlocks, nagReminder)
               ELSE pendingContextBlocks
          /\ Return("")
          /\ UNCHANGED tcIdx

\* a counter that ticks on every response, tool rounds included
RoundCountsEveryResponse(c) ==
  /\ choice' = c
  /\ messages' = Append(messages, c.Message)
  /\ fullMessages' = Append(fullMessages, c.Message)
  /\ roundsWithoutTodo' = roundsWithoutTodo + 1
  /\ IF IsToolRound(c)
     THEN /\ pc' = "tools"
          /\ tcIdx' = 1
          /\ UNCHANGED <<retErr, pendingContextBlocks>>
     ELSE /\ pendingContextBlocks' =
               IF roundsWithoutTodo + 1 > nagThreshold
               THEN ensureContextBlock(pendingContextBlocks, nagReminder)
               ELSE pendingContextBlocks
          /\ Return("")
          /\ UNCHANGED tcIdx

Round(c) ==
  /\ choice' = c
  /\ messages' = Append(messages, c.Message)
  /\ fullMessages' = Append(fullMessages, c.Message)
  /\ IF IsToolRound(c)
     THEN /\ pc' = "tools"
          /\ tcIdx' = 1
          /\ UNCHANGED <<retErr, roundsWithoutTodo, pendingContextBlocks>>
     ELSE /\ roundsWithoutTodo' = roundsWithoutTodo + 1
          /\ pendingContextBlocks' =
               IF roundsWithoutTodo + 1 > nagThreshold
               THEN ensureContextBlock(pendingContextBlocks, nagReminder)
               ELSE pendingContextBlocks
          /\ Return("")
          /\ UNCHANGED tcIdx

\* an error return that hands back the history query was called with, which
\* C10 excludes
ReceivedDropsRounds(r) ==
  IF r.err
  THEN /\ Return(r.text)
       /\ messages' = entry
       /\ UNCHANGED <<fullMessages, choice, tcIdx, responses,
                      roundsWithoutTodo, pendingContextBlocks>>
  ELSE /\ responses' = Append(responses, r.resp)
       /\ IF Len(r.resp.Choices) = 0
          THEN /\ Return("no choices in response")
               /\ UNCHANGED <<messages, fullMessages, choice, tcIdx,
                              roundsWithoutTodo, pendingContextBlocks>>
          ELSE Round(r.resp.Choices[1])

\* lines 390-396: what callOpenAI returned
Received(r) ==
  IF r.err
  THEN /\ Return(r.text)
       /\ UNCHANGED <<messages, fullMessages, choice, tcIdx, responses,
                      roundsWithoutTodo, pendingContextBlocks>>
  ELSE /\ responses' = Append(responses, r.resp)
       /\ IF Len(r.resp.Choices) = 0
          THEN /\ Return("no choices in response")
               /\ UNCHANGED <<messages, fullMessages, choice, tcIdx,
                              roundsWithoutTodo, pendingContextBlocks>>
          ELSE Round(r.resp.Choices[1])

\* lines 388-409 and 421-429: one model call, answered by one of replies,
\* and what follows it up to the first tool call
Called(replies) ==
  \E reply \in replies :
    /\ wire' = reply
    /\ modelCalls' = modelCalls + 1
    /\ Received(callOpenAI(cfg, reply))

CallModel ==
  /\ pc = "call"
  /\ InLoop(idx)
  /\ Called(Replies(idx))
  /\ UNCHANGED <<cfg, entry, idx, fs, ioLog, execLog, todoItems, call, toolMsg, dispatched,
                 mainVars, applyVars>>

\* lines 414-416: the result of one tool call is appended
Dispatched(tc, d) ==
  /\ call' = tc
  /\ toolMsg' = d.msg
  /\ dispatched' = Append(dispatched, tc)
  /\ messages' = Append(messages, d.msg)
  /\ fullMessages' = Append(fullMessages, d.msg)
  /\ SetWorld(d.w)

DispatchCall(tc) ==
  \E env \in OutcomesOf(tc) : Dispatched(tc, dispatchToolCall(cfg, tc, World, env))

\* lines 413-418: the next tool call of the round, and the continue after
\* the last one
DispatchTool ==
  /\ pc = "tools"
  /\ DispatchCall(NextCall(choice, tcIdx))
  /\ IF tcIdx < Len(choice.Message.ToolCalls)
     THEN /\ tcIdx' = tcIdx + 1
          /\ UNCHANGED <<idx, pc>>
     ELSE /\ tcIdx' = 0
          /\ idx' = idx + 1
          /\ pc' = "call"
  /\ UNCHANGED <<cfg, entry, choice, wire, responses, modelCalls, retErr,
                 pendingContextBlocks, mainVars, applyVars>>

\* line 432: the loop ran out
Exhausted ==
  /\ pc = "call"
  /\ ~InLoop(idx)
  /\ Return("agent max iterations reached")
  /\ UNCHANGED <<cfg, entry, messages, fullMessages, idx, choice, tcIdx, wire, responses,
                 modelCalls, fs, ioLog, execLog, todoItems, roundsWithoutTodo,
                 pendingContextBlocks, call, toolMsg, dispatched, mainVars, applyVars>>

InitWorld ==
  /\ fs = InitFs
  /\ ioLog = <<>>
  /\ execLog = <<>>
  /\ todoItems = <<>>
  /\ call = NoCall
  /\ toolMsg = NoMessage
  /\ dispatched = <<>>
  /\ given = <<>>
  /\ result = <<>>
  /\ threads = <<>>
  /\ mu = Unlocked
  /\ spin = NoSpinner

\* query is entered in turn n + 1 of a session
Init ==
  /\ cfg \in {Config("/w", m, st) : m \in {defaultMaxTokens, SmallMaxResult}, st \in BOOLEAN}
  /\ \E n \in EntryTurns :
       /\ entry = EntryHistory(n)
       /\ roundsWithoutTodo = n
       /\ turn = n + 1
  /\ history = entry
  /\ script = <<>>
  /\ messages = entry
  /\ fullMessages = <<>>
  /\ pendingContextBlocks = <<>>
  /\ pc = "enter"
  /\ idx = 0
  /\ choice = NoChoice
  /\ tcIdx = 0
  /\ wire = Reply(FALSE, 0, TRUE, NoChoicesDoc)
  /\ responses = <<>>
  /\ modelCalls = 0
  /\ retErr = ""
  /\ InitWorld

Next == QueryStart \/ CallModel \/ DispatchTool \/ Exhausted

Spec == Init /\ [][Next]_vars

(***************************************************************************)
(* dispatchToolCall on its own: one tool call, drawn at the start, is      *)
(* dispatched on the initial world                                         *)
(***************************************************************************)
Ran(tc, d) ==
  /\ call' = tc
  /\ toolMsg' = d.msg
  /\ SetWorld(d.w)

RunCall(tc) == \E env \in OutcomesOf(tc) : Ran(tc, dispatchToolCall(cfg, tc, World, env))

RunTool ==
  /\ pc = "tool"
  /\ RunCall(call)
  /\ pc' = "toolDone"
  /\ UNCHANGED <<cfg, queryVars, pendingContextBlocks, dispatched, mainVars, applyVars>>

\* no query and no session under way
NoTurn ==
  /\ entry = <<>>
  /\ messages = <<>>
  /\ fullMessages = <<>>
  /\ idx = 0
  /\ choice = NoChoice
  /\ tcIdx = 0
  /\ wire = Reply(FALSE, 0, TRUE, NoChoicesDoc)
  /\ responses = <<>>
  /\ modelCalls = 0
  /\ retErr = ""
  /\ pendingContextBlocks = <<>>
  /\ history = <<>>
  /\ turn = 0
  /\ script = <<>>
  /\ given = <<>>
  /\ result = <<>>

NoQuery ==
  /\ entry = <<>>
  /\ messages = <<>>
  /\ fullMessages = <<>>
  /\ idx = 0
  /\ choice = NoChoice
  /\ tcIdx = 0
  /\ wire = Reply(FALSE, 0, TRUE, NoChoicesDoc)
  /\ responses = <<>>
  /\ modelCalls = 0
  /\ retErr = ""
  /\ pendingContextBlocks = <<>>
  /\ history = <<>>
  /\ turn = 0
  /\ script = <<>>
  /\ given = <<>>
  /\ result = <<>>
  /\ threads = <<>>
  /\ mu = Unlocked
  /\ spin = NoSpinner

InitTool(cfgs, calls) ==
  /\ cfg \in cfgs
  /\ call \in calls
  /\ pc = "tool"
  /\ NoQuery
  /\ roundsWithoutTodo = 0
  /\ fs = InitFs
  /\ ioLog = <<>>
  /\ execLog = <<>>
  /\ todoItems = <<>>
  /\ toolMsg = NoMessage
  /\ dispatched = <<>>

\* every string of at most n characters of the alphabet
RECURSIVE Strs(_, _)
Strs(alphabet, n) ==
  IF n = 0 THEN {""}
  ELSE Strs(alphabet, n - 1) \cup {s \o c : s \in Strs(alphabet, n - 1), c \in alphabet}

PathAlphabet == {"/", ".", "w", "a", " "}
Paths == Strs(PathAlphabet, MaxPathLen)
Roots == {"/w", "/"}

FileCall(name, path) ==
  ToolCall("call_1", name,
           ArgsObject(Str1("path", path)
                      @@ (IF name = "write_file" THEN Str1("content", "new")
                          ELSE IF name = "edit_text"
                               THEN Str1("action", "replace") @@ Str1("find", "data")
                                    @@ Str1("replace", "DATA")
                               ELSE EmptyMap)))

PathCalls == {FileCall(name, p) : name \in {"read_file", "write_file", "edit_text"}, p \in Paths}

InitPath == InitTool({Config(root, defaultMaxTokens, FALSE) : root \in Roots}, PathCalls)

SpecPath == InitPath /\ [][RunTool]_vars

\* bash commands: a blocklist token or a harmless word, in some letter case,
\* with or without text and white space around it
CommandCores ==
  {"rm -rf /", "shutdown", "Reboot", "sudo ", "SUDO", "halt", "sudo_user_list", "ls",
   "rm -rf ./x", "rm  -rf /", "SHUTDOWN now", "sudo rm -rf /tmp", ""}
CommandPrefixes == {"", " ", "echo "}
CommandSuffixes == {"", " ", "\t", "x"}

\* the timeout_ms of a call: inside, at and outside the bounds the tool's
\* schema declares, as a number, as a string, and of a type that is no number
BashTimeouts ==
  {JNum(5), JNum(0), JNum(0 - 1), JNum(minBashTimeout), JNum(maxBashTimeout),
   JNum(maxBashTimeout + 1), JStr(" 600000 "), JStr("soon"), JBool(TRUE)}

BashCalls ==
  {ToolCall("call_1", "bash", ArgsObject(Str1("command", a \o c \o b))) :
     a \in CommandPrefixes, c \in CommandCores, b \in CommandSuffixes}
  \cup {ToolCall("call_1", "bash", ArgsObject(("command" :> JNum(7)))), T_bashEmpty}
  \cup {ToolCall("call_1", "bash", ArgsObject(Str1("command", c) @@ ("timeout_ms" :> t))) :
          c \in {"ls", "sudo ls"}, t \in BashTimeouts}

InitBash ==
  InitTool({Config("/w", m, FALSE) : m \in {defaultMaxTokens, SmallMaxResult}}, BashCalls)

SpecBash == InitBash /\ [][RunTool]_vars

(***************************************************************************)
(* callOpenAI on its own, in streaming mode: one event stream, drawn at    *)
(* the start, is decoded                                                   *)
(***************************************************************************)
StreamLines ==
  {BlankLine, DoneLine, Line("event", FALSE, "", "", <<>>), Line("bad", FALSE, "", "", <<>>),
   Line("ioerror", FALSE, "", "", <<>>), Line("chunk", FALSE, "", "", <<>>),
   Chunk("Hi", "", <<>>), Chunk(" there", "stop", <<>>), Chunk("", "length", <<>>),
   Chunk("", "tool_calls", <<ToolCall("call_1", "bash", ArgsObject(Str1("command", "ls")))>>)}

\* every sequence of at most n lines
RECURSIVE Streams(_)
Streams(n) ==
  IF n = 0 THEN {<<>>}
  ELSE Streams(n - 1) \cup {Append(ls, l) : ls \in Streams(n - 1), l \in StreamLines}

StreamReplies == {[Reply(TRUE, 200, TRUE, NoChoicesDoc) EXCEPT !.lines = ls] : ls \in Streams(MaxLines)}

InitApply(cfgs, inputs) ==
  /\ cfg \in cfgs
  /\ given \in inputs
  /\ result = <<>>
  /\ threads = <<>>
  /\ mu = Unlocked
  /\ spin = NoSpinner
  /\ pc = "apply"
  /\ entry = <<>>
  /\ messages = <<>>
  /\ fullMessages = <<>>
  /\ idx = 0
  /\ choice = NoChoice
  /\ tcIdx = 0
  /\ wire = Reply(FALSE, 0, TRUE, NoChoicesDoc)
  /\ responses = <<>>
  /\ modelCalls = 0
  /\ retErr = ""
  /\ pendingContextBlocks = <<>>
  /\ history = <<>>
  /\ turn = 0
  /\ script = <<>>
  /\ roundsWithoutTodo = 0
  /\ fs = InitFs
  /\ ioLog = <<>>
  /\ execLog = <<>>
  /\ todoItems = <<>>
  /\ call = NoCall
  /\ toolMsg = NoMessage
  /\ dispatched = <<>>

Applied(value) ==
  /\ result' = value
  /\ pc' = "applied"
  /\ UNCHANGED <<cfg, queryVars, fs, ioLog, execLog, todoItems, roundsWithoutTodo,
                 pendingContextBlocks, call, toolMsg, dispatched, mainVars, given, threadVars>>

DecodeStream ==
  /\ pc = "apply"
  /\ Applied(callOpenAI(cfg, given))

InitStream == InitApply({Config("/w", defaultMaxTokens, TRUE)}, StreamReplies)

SpecStream == InitStream /\ [][DecodeStream]_vars

(***************************************************************************)
(* clampText on its own: a text and a limit, drawn at the start, are       *)
(* clamped, and the result is clamped again at the same limit              *)
(***************************************************************************)
ClampTexts == Strs({"a", "b", "\n"}, MaxTextLen) \cup {"abc\n\n...<truncated 1 chars>"}
ClampLimits == (0 - 1)..(MaxTextLen + 1)
ClampInputs == {[s |-> s, limit |-> l] : s \in ClampTexts, l \in ClampLimits}

ClampText ==
  /\ pc = "apply"
  /\ Applied(clampText(given.s, given.limit))

ClampAgain ==
  /\ pc = "applied"
  /\ given' = [s |-> result, limit |-> given.limit]
  /\ result' = clampText(result, given.limit)
  /\ pc' = "again"
  /\ UNCHANGED <<cfg, queryVars, fs, ioLog, execLog, todoItems, roundsWithoutTodo,
                 pendingContextBlocks, call, toolMsg, dispatched, mainVars, threadVars>>

InitClamp == InitApply({Config("/w", defaultMaxTokens, FALSE)}, ClampInputs)

NextClamp == ClampText \/ ClampAgain

SpecClamp == InitClamp /\ [][NextClamp]_vars

(***************************************************************************)
(* write_file on its own: with and without each of its arguments           *)
(***************************************************************************)
Absent == {EmptyMap}
WritePaths ==
  Absent \cup {Str1("path", p) : p \in {"", " ", "a", "main.go", "new/b.txt", "out/c/d.txt", "../x"}}
WriteContents == Absent \cup {Str1("content", "x"), Str1("content", ""), ("content" :> JNum(7))}
WriteModes == Absent \cup {Str1("mode", m) : m \in {"append", "APPEND", "w"}}

WriteCalls ==
  {ToolCall("call_1", "write_file", ArgsObject(p @@ c @@ m)) :
     p \in WritePaths, c \in WriteContents, m \in WriteModes}

InitWrite == InitTool({Config("/w", defaultMaxTokens, FALSE)}, WriteCalls)

SpecWrite == InitWrite /\ [][RunTool]_vars

(***************************************************************************)
(* The file tools in a workspace that holds symbolic links                 *)
(***************************************************************************)
LinkPaths ==
  {"main.go", "pw", "out/passwd", "hop/passwd", "out/new.txt", "in/b", "in/new.txt", "sub/b",
   "out", "../etc/passwd", "/etc/passwd", "nowhere"}

EditActions ==
  {Str1("action", "replace") @@ Str1("find", "data") @@ Str1("replace", "DATA"),
   Str1("action", "insert") @@ Str1("new_text", "line"),
   Str1("action", "delete_range") @@ ("range" :> JArr(<<JNum(0), JNum(1)>>))}

LinkCalls ==
  {ToolCall("call_1", "read_file", ArgsObject(Str1("path", p))) : p \in LinkPaths}
  \cup {ToolCall("call_1", "write_file", ArgsObject(Str1("path", p) @@ Str1("content", "new") @@ m)) :
          p \in LinkPaths, m \in {EmptyMap, Str1("mode", "append")}}
  \cup {ToolCall("call_1", "edit_text", ArgsObject(Str1("path", p) @@ a)) :
          p \in LinkPaths, a \in EditActions}

InitLink ==
  /\ cfg = Config("/w", defaultMaxTokens, FALSE)
  /\ call \in LinkCalls
  /\ pc = "tool"
  /\ NoQuery
  /\ roundsWithoutTodo = 0
  /\ fs = LinkedFs
  /\ ioLog = <<>>
  /\ execLog = <<>>
  /\ todoItems = <<>>
  /\ toolMsg = NoMessage
  /\ dispatched = <<>>

SpecLink == InitLink /\ [][RunTool]_vars

(***************************************************************************)
(* edit_text on its own: files of five lines, of two lines ended by a      *)
(* newline, and an empty file; every range over the indexes -1..MaxIndex,  *)
(* ranges of another shape, and the calls that end in an error             *)
(***************************************************************************)
MaxIndex == 6

EditFs ==
  [InitFs EXCEPT !.files = ("/w/five" :> "a\nb\nc\nd\ne") @@ ("/w/nl" :> "a\nb\n")
                           @@ ("/w/none" :> "") @@ @]

EditPaths == {Str1("path", "five"), Str1("path", "nl"), Str1("path", "none"),
              Str1("path", "nofile"), Str1("path", "."), Str1("path", "../etc/passwd"), EmptyMap}

EditRanges ==
  {("range" :> JArr(<<JNum(start), JNum(end)>>)) : start, end \in -1..MaxIndex}
  \cup {EmptyMap, Str1("range", "1,3"), ("range" :> JArr(<<>>)), ("range" :> JArr(<<JNum(1)>>)),
        ("range" :> JArr(<<JNum(1), JNum(3), JNum(4)>>)),
        ("range" :> JArr(<<JStr(" 1 "), JStr("3")>>)), ("range" :> JArr(<<JStr("x"), JNull>>))}

EditRequests ==
  {Str1("action", "delete_range") @@ r : r \in EditRanges}
  \cup {Str1("action", "DELETE_RANGE") @@ ("range" :> JArr(<<JNum(1), JNum(3)>>)),
        Str1("action", "replace") @@ Str1("find", "a") @@ Str1("replace", "A"),
        Str1("action", "replace") @@ Str1("replace", "A"),
        Str1("action", "insert") @@ Str1("new_text", "line") @@ ("insert_after" :> JNum(0)),
        Str1("action", "insert") @@ Str1("new_text", "line"),
        Str1("action", "rename"), EmptyMap}

EditCalls == {ToolCall("call_1", "edit_text", ArgsObject(p @@ a)) : p \in EditPaths, a \in EditRequests}

InitEdit ==
  /\ cfg = Config("/w", defaultMaxTokens, FALSE)
  /\ call \in EditCalls
  /\ pc = "tool"
  /\ NoQuery
  /\ roundsWithoutTodo = 0
  /\ fs = EditFs
  /\ ioLog = <<>>
  /\ execLog = <<>>
  /\ todoItems = <<>>
  /\ toolMsg = NoMessage
  /\ dispatched = <<>>

SpecEdit == InitEdit /\ [][RunTool]_vars

(***************************************************************************)
(* read_file on its own, on the same files: start_line and end_line absent *)
(* or any integer of -2..MaxIndex                                          *)
(***************************************************************************)
LineArguments(key) == {EmptyMap} \cup {(key :> JNum(v)) : v \in -2..MaxIndex}

ReadPaths == {Str1("path", "five"), Str1("path", "nl"), Str1("path", "none")}

ReadCalls ==
  {ToolCall("call_1", "read_file", ArgsObject(p @@ sl @@ el)) :
     p \in ReadPaths, sl \in LineArguments("start_line"), el \in LineArguments("end_line")}

InitRead ==
  /\ cfg = Config("/w", defaultMaxTokens, FALSE)
  /\ call \in ReadCalls
  /\ pc = "tool"
  /\ NoQuery
  /\ roundsWithoutTodo = 0
  /\ fs = EditFs
  /\ ioLog = <<>>
  /\ execLog = <<>>
  /\ todoItems = <<>>
  /\ toolMsg = NoMessage
  /\ dispatched = <<>>

SpecRead == InitRead /\ [][RunTool]_vars

(***************************************************************************)
(* The task board under concurrent callers: each goroutine makes one call  *)
(* of Update, Render or Stats, and the calls interleave step by step. A    *)
(* step is one access to tm.mu or to tm.items; what a call does with its   *)
(* own arguments and locals between two accesses belongs to the step.      *)
(***************************************************************************)
Thread(op, items) ==
  [op |-> op, items |-> items, pc |-> "start", err |-> "", view |-> "",
   counts |-> stats(<<>>), ranged |-> <<>>]

BoardAtStart == <<TodoItem("1", "plan", "pending", "planning")>>
BoardDone ==
  <<TodoItem("1", "plan", "completed", "planning"), TodoItem("2", "code", "in_progress", "coding")>>
BoardTwoActive ==
  <<TodoItem("1", "plan", "in_progress", "planning"), TodoItem("2", "code", "in_progress", "coding")>>

BoardCalls ==
  {Thread("Update", BoardDone), Thread("Update", <<>>), Thread("Update", BoardTwoActive),
   Thread("Render", <<>>), Thread("Stats", <<>>)}

\* sync.Mutex.Lock returns when the mutex is free; a mutex that does not
\* exclude would return always
LockIgnored(holder) == TRUE

LockFree(holder) == holder = 0

Moved(t, th) == threads' = [threads EXCEPT ![t] = th]

BoardFrame ==
  UNCHANGED <<cfg, pc, queryVars, fs, ioLog, execLog, roundsWithoutTodo, pendingContextBlocks,
              call, toolMsg, dispatched, mainVars, given, result, spin>>

\* tm.mu.Lock() of Update, Render and Stats
BoardLock(t) ==
  /\ threads[t].pc = "start"
  /\ LockFree(mu.board)
  /\ mu' = [mu EXCEPT !.board = t]
  /\ Moved(t, [threads[t] EXCEPT !.pc = "locked"])
  /\ UNCHANGED todoItems
  /\ BoardFrame

\* lines 126-161: the checks of Update, on its argument only
UpdateValidate(t) ==
  /\ threads[t].pc = "locked"
  /\ threads[t].op = "Update"
  /\ Moved(t, IF Update(<<>>, threads[t].items).err
              THEN [threads[t] EXCEPT !.pc = "unlock", !.err = Update(<<>>, threads[t].items).text]
              ELSE [threads[t] EXCEPT !.pc = "valid"])
  /\ UNCHANGED <<todoItems, mu>>
  /\ BoardFrame

\* line 167: tm.items = items
UpdateStore(t) ==
  /\ threads[t].pc = "valid"
  /\ todoItems' = threads[t].items
  /\ Moved(t, [threads[t] EXCEPT !.pc = "render"])
  /\ UNCHANGED mu
  /\ BoardFrame

\* line 173: render reads len(tm.items), in Update after the store and in
\* Render after the lock
RenderLen(t) ==
  /\ \/ threads[t].pc = "render"
     \/ threads[t].pc = "locked" /\ threads[t].op = "Render"
  /\ Moved(t, IF Len(todoItems) = 0
              THEN [threads[t] EXCEPT !.pc = "unlock", !.view = render(<<>>)]
              ELSE [threads[t] EXCEPT !.pc = "range"])
  /\ UNCHANGED <<todoItems, mu>>
  /\ BoardFrame

\* lines 178-195: render ranges over tm.items as it is now
RenderRange(t) ==
  /\ threads[t].pc = "range"
  /\ Moved(t, [threads[t] EXCEPT !.pc = "unlock", !.view = renderLines(todoItems)])
  /\ UNCHANGED <<todoItems, mu>>
  /\ BoardFrame

\* lines 209-215: stats ranges over tm.items
StatsRange(t) ==
  /\ threads[t].pc = "locked"
  /\ threads[t].op = "Stats"
  /\ Moved(t, [threads[t] EXCEPT !.pc = "total", !.ranged = todoItems])
  /\ UNCHANGED <<todoItems, mu>>
  /\ BoardFrame

\* lines 217-221: the map, with len(tm.items) read again
StatsTotal(t) ==
  /\ threads[t].pc = "total"
  /\ Moved(t, [threads[t] EXCEPT !.pc = "unlock",
                                 !.counts = [stats(threads[t].ranged) EXCEPT !.total = Len(todoItems)]])
  /\ UNCHANGED <<todoItems, mu>>
  /\ BoardFrame

\* the deferred tm.mu.Unlock()
BoardUnlock(t) ==
  /\ threads[t].pc = "unlock"
  /\ mu' = [mu EXCEPT !.board = 0]
  /\ Moved(t, [threads[t] EXCEPT !.pc = "done"])
  /\ UNCHANGED todoItems
  /\ BoardFrame

InitBoard ==
  /\ cfg = Config("/w", defaultMaxTokens, FALSE)
  /\ pc = "threads"
  /\ threads \in [1..MaxThreads -> BoardCalls]
  /\ mu = Unlocked
  /\ spin = NoSpinner
  /\ NoTurn
  /\ todoItems = BoardAtStart
  /\ roundsWithoutTodo = 0
  /\ fs = InitFs
  /\ ioLog = <<>>
  /\ execLog = <<>>
  /\ call = NoCall
  /\ toolMsg = NoMessage
  /\ dispatched = <<>>

NextBoard ==
  \E t \in DOMAIN threads :
    \/ BoardLock(t)
    \/ UpdateValidate(t)
    \/ UpdateStore(t)
    \/ RenderLen(t)
    \/ RenderRange(t)
    \/ StatsRange(t)
    \/ StatsTotal(t)
    \/ BoardUnlock(t)

SpecBoard == InitBoard /\ [][NextBoard]_vars

(***************************************************************************)
(* The pending reminders under concurrent callers: a goroutine at the end  *)
(* of query's turn (lines 422-427, ensureContextBlock under agentState.mu) *)
(* or one that takes a user line (line 321, injectReminders). A step is    *)
(* one access to the mutex or to pendingContextBlocks.                     *)
(***************************************************************************)
Caller(op, text) == [op |-> op, text |-> text, pc |-> "start", blocks |-> <<>>, out |-> Plain("")]

ReminderCalls ==
  {Caller("ensure", nagReminder), Caller("inject", "hi"), Caller("inject", "go on")}

ReminderFrame ==
  UNCHANGED <<cfg, pc, queryVars, fs, ioLog, execLog, todoItems, roundsWithoutTodo,
              call, toolMsg, dispatched, mainVars, given, result, spin>>

\* line 422: agentState.mu.Lock() in query
StateLock(t) ==
  /\ threads[t].op = "ensure"
  /\ threads[t].pc = "start"
  /\ LockFree(mu.state)
  /\ mu' = [mu EXCEPT !.state = t]
  /\ Moved(t, [threads[t] EXCEPT !.pc = "scan"])
  /\ UNCHANGED pendingContextBlocks
  /\ ReminderFrame

\* lines 891-895: the scan of ensureContextBlock
EnsureScan(t) ==
  /\ threads[t].pc = "scan"
  /\ Moved(t, [threads[t] EXCEPT !.pc =
                 IF \E k \in 1..Len(pendingContextBlocks) :
                      pendingContextBlocks[k].Text = threads[t].text
                 THEN "unlock" ELSE "append"])
  /\ UNCHANGED <<pendingContextBlocks, mu>>
  /\ ReminderFrame

\* lines 896-899: the append of ensureContextBlock
EnsureAppend(t) ==
  /\ threads[t].pc = "append"
  /\ pendingContextBlocks' = Append(pendingContextBlocks, ContentBlock(threads[t].text))
  /\ Moved(t, [threads[t] EXCEPT !.pc = "unlock"])
  /\ UNCHANGED mu
  /\ ReminderFrame

\* line 427: agentState.mu.Unlock()
StateUnlock(t) ==
  /\ threads[t].pc = "unlock"
  /\ mu' = [mu EXCEPT !.state = 0]
  /\ Moved(t, [threads[t] EXCEPT !.pc = "done"])
  /\ UNCHANGED pendingContextBlocks
  /\ ReminderFrame

\* lines 880-882: injectReminders reads the length; it takes no lock
InjectLen(t) ==
  /\ threads[t].op = "inject"
  /\ threads[t].pc = "start"
  /\ Moved(t, IF Len(pendingContextBlocks) = 0
              THEN [threads[t] EXCEPT !.pc = "done", !.out = Plain(threads[t].text)]
              ELSE [threads[t] EXCEPT !.pc = "copy"])
  /\ UNCHANGED <<pendingContextBlocks, mu>>
  /\ ReminderFrame

\* lines 883-885: the copy of the pending blocks, and the user text after it
InjectCopy(t) ==
  /\ threads[t].pc = "copy"
  /\ Moved(t, [threads[t] EXCEPT !.pc = "clear",
                                 !.blocks = Append(pendingContextBlocks,
                                                   ContentBlock(threads[t].text))])
  /\ UNCHANGED <<pendingContextBlocks, mu>>
  /\ ReminderFrame

\* lines 886-887: pendingContextBlocks = nil
InjectClear(t) ==
  /\ threads[t].pc = "clear"
  /\ pendingContextBlocks' = <<>>
  /\ Moved(t, [threads[t] EXCEPT !.pc = "done", !.out = Blocks(threads[t].blocks)])
  /\ UNCHANGED mu
  /\ ReminderFrame

InitReminders ==
  /\ cfg = Config("/w", defaultMaxTokens, FALSE)
  /\ pc = "threads"
  /\ threads \in [1..MaxThreads -> ReminderCalls]
  /\ mu = Unlocked
  /\ spin = NoSpinner
  /\ pendingContextBlocks \in {<<>>, <<ContentBlock(initialReminder)>>}
  /\ entry = <<>>
  /\ messages = <<>>
  /\ fullMessages = <<>>
  /\ idx = 0
  /\ choice = NoChoice
  /\ tcIdx = 0
  /\ wire = Reply(FALSE, 0, TRUE, NoChoicesDoc)
  /\ responses = <<>>
  /\ modelCalls = 0
  /\ retErr = ""
  /\ history = <<>>
  /\ turn = 0
  /\ script = <<>>
  /\ given = <<>>
  /\ result = <<>>
  /\ todoItems = <<>>
  /\ roundsWithoutTodo = 0
  /\ fs = InitFs
  /\ ioLog = <<>>
  /\ execLog = <<>>
  /\ call = NoCall
  /\ toolMsg = NoMessage
  /\ dispatched = <<>>

NextReminders ==
  \E t \in DOMAIN threads :
    \/ StateLock(t)
    \/ EnsureScan(t)
    \/ EnsureAppend(t)
    \/ StateUnlock(t)
    \/ InjectLen(t)
    \/ InjectCopy(t)
    \/ InjectClear(t)

SpecReminders == InitReminders /\ [][NextReminders]_vars

(***************************************************************************)
(* The pending reminders under a sequence of calls: after main has queued  *)
(* the initial reminder, ensureContextBlock and injectReminders are called *)
(* in any order, ensureContextBlock with any of a few texts                *)
(***************************************************************************)
ReminderTexts == {initialReminder, nagReminder, "a", "b"}

QueueFrame ==
  UNCHANGED <<cfg, queryVars, fs, ioLog, execLog, todoItems, roundsWithoutTodo, call, toolMsg,
              dispatched, mainVars, threadVars>>

EnsureCall ==
  /\ \E text \in ReminderTexts :
       /\ given' = [text |-> text, pending |-> pendingContextBlocks]
       /\ pendingContextBlocks' = ensureContextBlock(pendingContextBlocks, text)
  /\ pc' = "ensured"
  /\ UNCHANGED result
  /\ QueueFrame

InjectCall ==
  /\ given' = [text |-> "hi", pending |-> pendingContextBlocks]
  /\ result' = injectReminders(pendingContextBlocks, "hi").content
  /\ pendingContextBlocks' = injectReminders(pendingContextBlocks, "hi").pending
  /\ pc' = "injected"
  /\ QueueFrame

\* lines 294-298: the initial reminder is queued on the empty list
InitQueue ==
  /\ cfg = Config("/w", defaultMaxTokens, FALSE)
  /\ pc = "queue"
  /\ pendingContextBlocks = <<ContentBlock(initialReminder)>>
  /\ entry = <<>>
  /\ messages = <<>>
  /\ fullMessages = <<>>
  /\ idx = 0
  /\ choice = NoChoice
  /\ tcIdx = 0
  /\ wire = Reply(FALSE, 0, TRUE, NoChoicesDoc)
  /\ responses = <<>>
  /\ modelCalls = 0
  /\ retErr = ""
  /\ history = <<>>
  /\ turn = 0
  /\ script = <<>>
  /\ roundsWithoutTodo = 0
  /\ InitWorld

NextQueue == EnsureCall \/ InjectCall

SpecQueue == InitQueue /\ [][NextQueue]_vars

(***************************************************************************)
(* The task board under a sequence of TodoWrite calls, from the start of a  *)
(* session and after three turns without one                               *)
(***************************************************************************)
TodoPlan == TodoRaw("", "plan", "", "planning")
TodoBlank == TodoRaw("c", " ", "pending", "waiting")

\* the items that are paired with each other
TodoPairRaws ==
  { TodoPlan,
    TodoRaw("a", "code", "in_progress", "coding"),
    TodoRaw("b", "test", "IN_PROGRESS", "testing"),
    TodoRaw("a", "ship", "completed", "shipping"),
    TodoBlank }

TodoRaws ==
  TodoPairRaws
  \cup { TodoRaw("d", "docs", "pending", ""),
         TodoRaw("e", "docs", "done", "documenting"),
         TodoRaw("1", "one", "Pending", "first"),
         JObj([id |-> JNum(2), content |-> JStr("two"), status |-> JStr("completed"),
               activeForm |-> JStr("second")]) }

\* n items that pass every check on a single item; the ids are the positions
Numbered(n) == [k \in 1..n |-> TodoRaw("", "step " \o Itoa(k), "", "stepping")]

TodoArguments ==
  {JArr(<<>>)} \cup {JArr(<<a>>) : a \in TodoRaws}
  \cup {JArr(<<a, b>>) : a, b \in TodoPairRaws}
  \cup {JArr(<<TodoPlan, TodoRaw("1", "one", "Pending", "first")>>),
        JArr(Numbered(maxTodoItems)), JArr(Numbered(maxTodoItems + 1)),
        JArr(Append(Numbered(maxTodoItems), TodoBlank)),
        JArr(<<TodoPlan, JStr("code")>>), JStr("plan")}

TodoCalls ==
  {ToolCall("call_1", "TodoWrite", ArgsObject(("items" :> a))) : a \in TodoArguments}
  \cup {T_todoNoItems}

TodoStep ==
  /\ pc = "board"
  /\ \E tc \in TodoCalls : RunCall(tc)
  /\ UNCHANGED <<cfg, pc, queryVars, pendingContextBlocks, dispatched, mainVars, applyVars>>

InitTodo ==
  /\ cfg = Config("/w", defaultMaxTokens, FALSE)
  /\ call = NoCall
  /\ pc = "board"
  /\ NoQuery
  /\ roundsWithoutTodo \in {0, 3}
  /\ fs = InitFs
  /\ ioLog = <<>>
  /\ execLog = <<>>
  /\ todoItems = <<>>
  /\ toolMsg = NoMessage
  /\ dispatched = <<>>

SpecTodo == InitTodo /\ [][TodoStep]_vars

(***************************************************************************)
(* main: a session of MaxTurns user lines. The endpoint's behaviour in     *)
(* each turn is laid down by a script drawn at the start: a plain answer,  *)
(* or, in at most MaxEventfulTurns turns, something else.                  *)
(***************************************************************************)
Refused == Reply(FALSE, 0, TRUE, NoChoicesDoc)
Answer(doc) == Reply(TRUE, 200, TRUE, doc)

\* the replies to the model calls of one turn
TurnReplies(kind) ==
  CASE kind = "plain" -> <<Answer(APIResponse(<<Choice(Assistant("ok", <<>>), "stop")>>))>>
    [] kind = "todo" -> <<Answer(ToolsDoc(WithIDs(<<T_todoOk>>))), Answer(StopDoc)>>
    [] kind = "todo_rejected" ->
         <<Answer(ToolsDoc(WithIDs(<<T_todoTwoActive>>))), Answer(StopDoc)>>
    [] kind = "tool_then_refused" -> <<Answer(ToolsDoc(WithIDs(<<T_write>>))), Refused>>
    [] kind = "refused" -> <<Refused>>
    [] OTHER -> <<Reply(TRUE, 500, TRUE, NoChoicesDoc)>>

EventfulTurns == {"todo", "todo_rejected", "tool_then_refused", "refused", "status_500"}

RECURSIVE ScriptsWith(_)
ScriptsWith(k) ==
  IF k = 0 THEN {[i \in 1..MaxTurns |-> "plain"]}
  ELSE ScriptsWith(k - 1)
       \cup {[sc EXCEPT ![p] = t] : sc \in ScriptsWith(k - 1), p \in 1..MaxTurns, t \in EventfulTurns}

Scripts == ScriptsWith(MaxEventfulTurns)

\* the line the user types in turn n
UserLine(n) == IF n = 1 THEN "hi" ELSE "go on"

\* lines 319-322: the user message goes on the history and query is called
\* with it
Asked(r) ==
  /\ history' = Append(history, UserMessage(r.content))
  /\ pendingContextBlocks' = r.pending
  /\ entry' = Append(history, UserMessage(r.content))
  /\ messages' = Append(history, UserMessage(r.content))

\* lines 305-322: a line is read and the turn starts
ReadLine ==
  /\ pc = "prompt"
  /\ turn < Len(script)
  /\ turn' = turn + 1
  /\ Asked(injectReminders(pendingContextBlocks, UserLine(turn + 1)))
  /\ pc' = "enter"
  /\ fullMessages' = <<>>
  /\ idx' = 0
  /\ choice' = NoChoice
  /\ tcIdx' = 0
  /\ responses' = <<>>
  /\ modelCalls' = 0
  /\ retErr' = ""
  /\ dispatched' = <<>>
  /\ UNCHANGED <<cfg, wire, fs, ioLog, execLog, todoItems, roundsWithoutTodo, call, toolMsg,
                 script, applyVars>>

\* the model call of the turn, answered as the script says
ScriptedCall ==
  /\ pc = "call"
  /\ InLoop(idx)
  /\ idx < Len(TurnReplies(script[turn]))
  /\ Called({TurnReplies(script[turn])[idx + 1]})
  /\ UNCHANGED <<cfg, entry, idx, fs, ioLog, execLog, todoItems, call, toolMsg, dispatched,
                 mainVars, applyVars>>

\* lines 324-329: query has returned
TurnEnd ==
  /\ pc = "returned"
  /\ history' = IF retErr # "" THEN history ELSE messages
  /\ pc' = "prompt"
  /\ UNCHANGED <<cfg, queryVars, fs, ioLog, execLog, todoItems, roundsWithoutTodo,
                 pendingContextBlocks, call, toolMsg, dispatched, turn, script, applyVars>>

\* lines 305-307: the input has ended
EndOfInput ==
  /\ pc = "prompt"
  /\ turn = Len(script)
  /\ pc' = "exit"
  /\ UNCHANGED <<cfg, queryVars, fs, ioLog, execLog, todoItems, roundsWithoutTodo,
                 pendingContextBlocks, call, toolMsg, dispatched, mainVars, applyVars>>

\* lines 291-298: main before the first line is read
InitSession ==
  /\ cfg = Config("/w", defaultMaxTokens, FALSE)
  /\ script \in Scripts
  /\ history = <<>>
  /\ turn = 0
  /\ pendingContextBlocks = <<ContentBlock(initialReminder)>>
  /\ roundsWithoutTodo = 0
  /\ pc = "prompt"
  /\ entry = <<>>
  /\ messages = <<>>
  /\ fullMessages = <<>>
  /\ idx = 0
  /\ choice = NoChoice
  /\ tcIdx = 0
  /\ wire = Refused
  /\ responses = <<>>
  /\ modelCalls = 0
  /\ retErr = ""
  /\ InitWorld

NextSession == ReadLine \/ QueryStart \/ ScriptedCall \/ DispatchTool \/ TurnEnd \/ EndOfInput

SpecSession == InitSession /\ [][NextSession]_vars

(***************************************************************************)
(* Properties of query (Spec)                                              *)
(***************************************************************************)
Last(s) == s[Len(s)]
AllButLast(s) == SubSeq(s, 1, Len(s) - 1)

capError == "agent max iterations reached"

\* a response that asks for tools: the finish reason is tool_calls and there
\* is at least one tool call
RequestsTools(resp) ==
  /\ Len(resp.Choices) > 0
  /\ resp.Choices[1].FinishReason = "tool_calls"
  /\ Len(resp.Choices[1].Message.ToolCalls) > 0

CallsOf(resp) == IF RequestsTools(resp) THEN resp.Choices[1].Message.ToolCalls ELSE <<>>

RECURSIVE AllCallsOf(_)
AllCallsOf(resps) ==
  IF Len(resps) = 0 THEN <<>> ELSE CallsOf(Head(resps)) \o AllCallsOf(Tail(resps))

\* what a round adds to the history: the assistant message as it was
\* received, then one message of role tool for each tool call
AssistantSlot(m) == [tool |-> FALSE, msg |-> m, tc |-> ToolCall("", "", ArgsNull)]
ToolSlot(tc) == [tool |-> TRUE, msg |-> Message("", Plain(""), <<>>, "", ""), tc |-> tc]

ToolSlots(calls) == [k \in 1..Len(calls) |-> ToolSlot(calls[k])]

SlotsOfRound(resp) ==
  IF Len(resp.Choices) = 0 THEN <<>>
  ELSE <<AssistantSlot(resp.Choices[1].Message)>> \o ToolSlots(CallsOf(resp))

RECURSIVE SlotsOf(_)
SlotsOf(resps) ==
  IF Len(resps) = 0 THEN <<>> ELSE SlotsOfRound(Head(resps)) \o SlotsOf(Tail(resps))

Fills(m, slot) ==
  IF slot.tool
  THEN m.Role = "tool" /\ m.ToolCallID = slot.tc.ID /\ m.Name = slot.tc.Name
  ELSE m = slot.msg

\* msgs is before, followed by one message for each slot
HistoryIs(msgs, before, slots) ==
  /\ Len(msgs) = Len(before) + Len(slots)
  /\ SubSeq(msgs, 1, Len(before)) = before
  /\ \A j \in 1..Len(slots) : Fills(msgs[Len(before) + j], slots[j])

\* C1: one invocation of query makes at most 20 model calls, and when 20
\* responses in a row have asked for tools it returns the error "agent max
\* iterations reached", not a normal return.
C1_IterationCap ==
  /\ modelCalls <= 20
  /\ (pc = "returned" /\ Len(responses) = 20 /\ \A k \in 1..20 : RequestsTools(responses[k]))
       => retErr = capError

C1_CapReached == pc = "returned" /\ modelCalls = 20 /\ retErr = capError /\ Len(dispatched) >= 20

\* C2: when query returns without error, the responses were k < 20 that
\* asked for tools and then one that did not; the tool calls dispatched are
\* those of the k responses in order; the history returned is the input
\* history, then for each of the k rounds its assistant message and one
\* message of role tool per tool call, then the last assistant message; and
\* no message of it has the role system.
C2_ScriptedTurn ==
  (pc = "returned" /\ retErr = "") =>
    /\ Len(responses) \in 1..20
    /\ ~RequestsTools(Last(responses))
    /\ \A k \in 1..(Len(responses) - 1) : RequestsTools(responses[k])
    /\ dispatched = AllCallsOf(AllButLast(responses))
    /\ HistoryIs(messages, entry, SlotsOf(responses))
    /\ Last(messages) = Last(responses).Choices[1].Message
    /\ \A j \in 1..Len(messages) : messages[j].Role # "system"

C2_TwoRoundsThenStop ==
  /\ pc = "returned"
  /\ retErr = ""
  /\ Len(responses) = 3
  /\ Len(dispatched) = 3
  /\ Last(responses).Choices[1].FinishReason = "stop"

\* C3: a model call is made only when every tool call of every response
\* received has been dispatched and its result is in the history and in the
\* messages sent; and a tool call is dispatched without a model call, it is
\* the next one of the latest response in the order received, and its result,
\* with the id and the name of the call, is appended to the history.
C3_SequentialRound ==
  [][ /\ (modelCalls' # modelCalls) =>
           /\ dispatched = AllCallsOf(responses)
           /\ HistoryIs(messages, entry, SlotsOf(responses))
           /\ Tail(fullMessages) = messages
      /\ (dispatched' # dispatched) =>
           /\ modelCalls' = modelCalls
           /\ responses' = responses
           /\ Len(dispatched) - Len(AllCallsOf(AllButLast(responses))) + 1
                \in 1..Len(CallsOf(Last(responses)))
           /\ dispatched' =
                Append(dispatched,
                       CallsOf(Last(responses))[Len(dispatched)
                                                - Len(AllCallsOf(AllButLast(responses))) + 1])
           /\ Fills(toolMsg', ToolSlot(Last(dispatched')))
           /\ messages' = Append(messages, toolMsg')
           /\ fullMessages' = Append(fullMessages, toolMsg')
    ]_vars

C3_BetweenTwoTools ==
  /\ pc = "tools"
  /\ Len(CallsOf(Last(responses))) = 2
  /\ dispatched = <<CallsOf(Last(responses))[1]>>
  /\ Last(messages).ToolCallID = "call_1"

\* C4: in both protocol modes, when the endpoint's reply to a model call
\* has the finish reason tool_calls and one or more tool calls, query gets
\* that response, tool calls included, and does not return before the round
\* is run (it returns only when the cap is reached).
C4_ToolRoundInBothModes ==
  (modelCalls > 0 /\ wire.net /\ wire.status < 400 /\ wire.valid /\ RequestsTools(wire.doc)) =>
    /\ Len(responses) > 0
    /\ Last(responses) = wire.doc
    /\ pc = "returned" => retErr = capError

\* C9: the messages of role tool that query added are one for each tool
\* call dispatched, in order, each with the id and the name of its call; and
\* when query returns an error it is the cap error, or the last model call
\* failed or brought no choice.
IsToolMessage(m) == m.Role = "tool"

ToolMessages == SelectSeq(SubSeq(messages, Len(entry) + 1, Len(messages)), IsToolMessage)

C9_ToolOutcomesStayLocal ==
  /\ Len(ToolMessages) = Len(dispatched)
  /\ \A j \in 1..Len(dispatched) : Fills(ToolMessages[j], ToolSlot(dispatched[j]))
  /\ call.Name # "" => Fills(toolMsg, ToolSlot(call))
  /\ (pc = "returned" /\ retErr # "") =>
       \/ retErr = capError /\ Len(responses) = 20
       \/ Len(responses) < modelCalls
       \/ Last(responses).Choices = <<>>

C9_BadArgumentsThenStop ==
  /\ pc = "returned"
  /\ retErr = ""
  /\ Len(dispatched) = 2
  /\ dispatched[1].Arguments.parse = "syntax"
  /\ dispatched[2].Arguments.parse = "type"

\* C10: when query returns an error, the history it returns is the input
\* history followed by the assistant message and the tool messages of every
\* round completed before, and nothing else.
C10_HistoryOnError ==
  (pc = "returned" /\ retErr # "") =>
    /\ HistoryIs(messages, entry, SlotsOf(responses))
    /\ dispatched = AllCallsOf(responses)

C10_FailureAfterRounds ==
  /\ pc = "returned"
  /\ retErr \notin {"", capError}
  /\ Len(responses) < modelCalls
  /\ Len(dispatched) >= 2
  /\ Len(messages) >= Len(entry) + 4

(***************************************************************************)
(* Properties of safePath and the file tools (SpecPath)                    *)
(***************************************************************************)
NonEmpty(x) == x # ""
Segments(p) == SelectSeq(Split(p, "/"), NonEmpty)

\* abs names root or something below it, element by element
UnderRoot(abs, root) ==
  /\ \A k \in 1..Len(Segments(abs)) : Segments(abs)[k] \notin {".", ".."}
  /\ Len(Segments(root)) <= Len(Segments(abs))
  /\ SubSeq(Segments(abs), 1, Len(Segments(root))) = Segments(root)

PathArgument == getString(call.Arguments.obj, "path")
Resolved == safePath(cfg.WorkDir, PathArgument)

\* C5: for every root and candidate path, safePath fails or returns a path
\* that is the root or starts with the root and a separator, and that names
\* nothing outside the root; and when it fails, read_file, write_file and
\* edit_text make no call on the file system and change no file.
C5_SandboxedPaths ==
  /\ Resolved.ok =>
       /\ Resolved.abs = cfg.WorkDir \/ HasPrefix(Resolved.abs, cfg.WorkDir \o "/")
       /\ UnderRoot(Resolved.abs, cfg.WorkDir)
  /\ (pc = "toolDone" /\ ~Resolved.ok) =>
       /\ ioLog = <<>>
       /\ fs = InitFs
       /\ toolMsg.Content.text \in {"path required", "path escapes workspace"}

C5_EscapeRejected ==
  /\ pc = "toolDone"
  /\ Contains(PathArgument, "..")
  /\ ~Resolved.ok
  /\ toolMsg.Content.text = "path escapes workspace"
  /\ ioLog = <<>>

(***************************************************************************)
(* Properties of the bash tool (SpecBash)                                  *)
(***************************************************************************)
CommandArgument == getString(call.Arguments.obj, "command")

Blocklisted(s) ==
  \E t \in {"rm -rf /", "shutdown", "reboot", "sudo ", "halt"} : Contains(ToLower(s), t)

blockedText == "blocked dangerous command"

\* C6: a bash call is blocked exactly when its command argument, lower-cased,
\* contains rm -rf /, shutdown, reboot, "sudo " or halt; a blocked command is
\* not run and its tool result is the text "blocked dangerous command"; any
\* other command that is not blank is run.
C6_BlockedByArgument ==
  pc = "toolDone" =>
    IF Blocklisted(CommandArgument)
    THEN execLog = <<>> /\ toolMsg.Content.text = blockedText
    ELSE TrimSpace(CommandArgument) # "" => Len(execLog) = 1

\* C6, as the code has it: the test is made on the command argument with the
\* white space around it removed, and the tool result of a blocked command is
\* that text cut to Config.MaxResult characters by clampText.
C6_BlockedAfterTrim ==
  pc = "toolDone" =>
    IF Blocklisted(TrimSpace(CommandArgument))
    THEN execLog = <<>> /\ toolMsg.Content.text = clampText(blockedText, cfg.MaxResult)
    ELSE TrimSpace(CommandArgument) # "" =>
           /\ Len(execLog) = 1
           /\ execLog[1].command = TrimSpace(CommandArgument)

C6_UpperCaseBlocked ==
  /\ pc = "toolDone"
  /\ Blocklisted(TrimSpace(CommandArgument))
  /\ CommandArgument # ToLower(CommandArgument)
  /\ execLog = <<>>
  /\ toolMsg.Content.text = blockedText

(***************************************************************************)
(* Properties of the task board (SpecTodo)                                 *)
(***************************************************************************)
\* C7: in every state the stored list has at most 20 items, ids that differ
\* from each other, a content and an activeForm that are not empty on every
\* item, and at most one item whose status is in_progress.
C7_BoardInvariant ==
  /\ Len(todoItems) <= 20
  /\ \A i, j \in 1..Len(todoItems) : i # j => todoItems[i].ID # todoItems[j].ID
  /\ \A i \in 1..Len(todoItems) : todoItems[i].Content # "" /\ todoItems[i].ActiveForm # ""
  /\ Cardinality({i \in 1..Len(todoItems) : ToLower(todoItems[i].Status) = "in_progress"}) <= 1

C7_FullBoardKept ==
  /\ Len(todoItems) = 20
  /\ call.Name = "TodoWrite"
  /\ "items" \in DOMAIN call.Arguments.obj
  /\ call.Arguments.obj["items"].t = "array"
  /\ Len(call.Arguments.obj["items"].a) = 21
  /\ toolMsg.Content.text = "todo list is limited to 20 items"

\* the call reaches Update: items is an array of objects
ReachesUpdate(tc) ==
  /\ tc.Name = "TodoWrite"
  /\ "items" \in DOMAIN tc.Arguments.obj
  /\ tc.Arguments.obj["items"].t = "array"
  /\ \A k \in 1..Len(tc.Arguments.obj["items"].a) : tc.Arguments.obj["items"].a[k].t = "object"

\* the list runTodoUpdate hands to Update
Proposed(tc) ==
  [k \in 1..Len(tc.Arguments.obj["items"].a) |-> itemOf(tc.Arguments.obj["items"].a[k].o, k - 1)]

\* the five reasons to reject a list
Rejected(items) ==
  \/ Len(items) > 20
  \/ \E i, j \in 1..Len(items) : i # j /\ items[i].ID = items[j].ID
  \/ \E i \in 1..Len(items) : TrimSpace(items[i].Content) = "" \/ TrimSpace(items[i].ActiveForm) = ""
  \/ \E i \in 1..Len(items) : ToLower(items[i].Status) \notin {"pending", "in_progress", "completed"}
  \/ Cardinality({i \in 1..Len(items) : ToLower(items[i].Status) = "in_progress"}) > 1

\* C8: Update returns an error exactly for a list with more than 20 items,
\* a duplicate id, an empty content or activeForm, an invalid status or more
\* than one in_progress item, and then the stored list is what it was before
\* the call; otherwise the stored list becomes exactly the proposed list.
C8_AllOrNothing ==
  [][ ReachesUpdate(call') =>
        /\ Update(todoItems, Proposed(call')).err <=> Rejected(Proposed(call'))
        /\ IF Rejected(Proposed(call'))
           THEN todoItems' = todoItems
           ELSE todoItems' = Proposed(call')
    ]_vars

C8_RejectedKeepsBoard ==
  /\ Len(todoItems) = 2
  /\ ReachesUpdate(call)
  /\ Len(Proposed(call)) = 2
  /\ Rejected(Proposed(call))
  /\ TrimSpace(Proposed(call)[2].Content) = ""
  /\ Proposed(call)[1] \notin {todoItems[1], todoItems[2]}

(***************************************************************************)
(* Properties of main (SpecSession)                                        *)
(***************************************************************************)
\* C11: after a turn that ended in an error, the history main keeps is the
\* history as of before the failing model call: the history query returned,
\* with the messages of every round of the turn that completed.
C11_HistoryAfterError ==
  (pc = "prompt" /\ retErr # "") => history = messages

(***************************************************************************)
(* Properties of the streaming decoder (SpecStream)                        *)
(***************************************************************************)
\* a line that carries a well-formed chunk with a first choice
WellFormed(l) == l.kind = "chunk" /\ l.has
\* a line at which reading stops
Ends(l) == l.kind = "done" \/ (WellFormed(l) /\ l.finish # "")

\* the lines up to and including the first that ends the stream, or all
UpToEnd(lines) ==
  IF \E i \in 1..Len(lines) : Ends(lines[i])
  THEN SubSeq(lines, 1, CHOOSE i \in 1..Len(lines) :
                           Ends(lines[i]) /\ \A j \in 1..(i - 1) : ~Ends(lines[j]))
  ELSE lines

RECURSIVE Deltas(_)
Deltas(lines) ==
  IF Len(lines) = 0 THEN ""
  ELSE (IF WellFormed(Head(lines)) THEN Head(lines).content ELSE "") \o Deltas(Tail(lines))

ReadFails(lines) == \E i \in 1..Len(lines) : lines[i].kind = "ioerror"

Decoded(text) ==
  CallDone(APIResponse(<<Choice(Message("assistant", Plain(text), <<>>, "", ""), "stop")>>))

\* C12: of an event stream that is read without a read error, the decoder
\* returns exactly one choice, an assistant message with finish reason "stop"
\* and no tool calls, whose content is the concatenation, in order, of the
\* content deltas of the well-formed data chunks up to and including the
\* first one with a non-empty finish reason, or up to [DONE] or the end of
\* the stream; blank lines, lines without the data prefix and malformed
\* chunks contribute nothing.
C12_StreamDecoded ==
  (pc = "applied" /\ ~ReadFails(UpToEnd(given.lines)))
    => result = Decoded(Deltas(UpToEnd(given.lines)))

\* the stream 'Hi', ' there' with finish reason stop, [DONE] gives 'Hi there'
C12_HiThere ==
  /\ pc = "applied"
  /\ given.lines = <<Chunk("Hi", "", <<>>), Chunk(" there", "stop", <<>>), DoneLine>>
  /\ result = Decoded("Hi there")

(***************************************************************************)
(* Properties of the tool results                                          *)
(***************************************************************************)
\* the text a tool call produces before any bounding: the parse error, or
\* what the tool function returned (its result or its error's text)
RawOf(parsed, c, tc, w, env) ==
  IF parsed.err THEN "Error parsing arguments: " \o parsed.text
  ELSE runTool(c, tc.Name, parsed.input, w, env).text

RawResult(c, tc, w, env) == RawOf(Unmarshal(tc.Arguments), c, tc, w, env)

\* C13: the content of the tool message of every dispatched call, on every
\* path of dispatchToolCall, the argument parse failure included, is
\* clampText(raw, cfg.MaxResult) of the text raw the path produced.
C13_EveryResultClamped ==
  [][pc = "tools" =>
       \E env \in OutcomesOf(call') :
         toolMsg'.Content.text = clampText(RawResult(cfg, call', World, env), cfg.MaxResult)]_vars

(***************************************************************************)
(* Properties of clampText (SpecClamp)                                     *)
(***************************************************************************)
\* C14: clampText is idempotent: clamping a clamped text again at the same
\* limit gives the clamped text back.
C14_ClampIdempotent ==
  pc = "again" => result = given.s

TakeFirst(s, n) == IF n <= 0 THEN "" ELSE SubSeq(s, 1, n)
TruncationMarker(n) == "\n\n...<truncated " \o Itoa(n) \o " chars>"

\* C15 as stated, for every limit: a text of at most limit characters is
\* returned as it is; of any other text the result is its first limit
\* characters followed by a truncation marker.
C15_ClampForEveryLimit ==
  pc = "applied" =>
    IF Len(given.s) <= given.limit THEN result = given.s
    ELSE \E n \in 0..Len(given.s) + 1 : result = TakeFirst(given.s, given.limit) \o TruncationMarker(n)

\* C15, amended: for a positive limit, a text of at most limit characters is
\* returned as it is, and of a longer text the result is its first limit
\* characters followed by the truncation marker with the number of
\* characters cut; for a limit of zero or less the result is the empty
\* string, without a marker.
C15_ClampForPositiveLimit ==
  pc = "applied" =>
    IF given.limit <= 0 THEN result = ""
    ELSE IF Len(given.s) <= given.limit THEN result = given.s
    ELSE result = TakeFirst(given.s, given.limit) \o TruncationMarker(Len(given.s) - given.limit)

C15_LongTextCut ==
  /\ pc = "applied"
  /\ given = [s |-> "ab\n", limit |-> 2]
  /\ result = "ab\n\n...<truncated 1 chars>"

(***************************************************************************)
(* Properties of the bash timeout (SpecBash)                               *)
(***************************************************************************)
TimeoutArgument == getOptionalInt(call.Arguments.obj, "timeout_ms")

\* the caller's value kept within the declared bounds
Bounded(n) == IF n < minBashTimeout THEN minBashTimeout
              ELSE IF n > maxBashTimeout THEN maxBashTimeout ELSE n

\* C16: the timeout applied to every bash execution is 30000 ms when the
\* call carries no timeout_ms, and otherwise the caller's value kept within
\* 1000..120000 ms; none is zero, negative or above 120000 ms.
C16_TimeoutBounded ==
  \A k \in 1..Len(execLog) :
    /\ execLog[k].timeout_ms \in minBashTimeout..maxBashTimeout
    /\ execLog[k].timeout_ms =
         (IF TimeoutArgument.ok THEN Bounded(TimeoutArgument.n) ELSE defaultBashTimeout)

(***************************************************************************)
(* Properties of the reminders (SpecSession)                               *)
(***************************************************************************)
\* the content injectReminders is to give the user text, by the blocks pending
Injected(pending, userText) ==
  IF pending = <<>> THEN Plain(userText)
  ELSE Blocks(pending \o <<ContentBlock(userText)>>)

\* C17: when a user line is taken, the user message appended to the history
\* has the plain user text as content if no context block is pending, and
\* otherwise the pending blocks in their order followed by one text block
\* with the user text; no block is pending afterwards; the first user
\* message of a session is the initial reminder followed by the user text.
C17_RemindersInjected ==
  [][turn' = turn + 1 =>
       /\ history' = Append(history, UserMessage(Injected(pendingContextBlocks, UserLine(turn'))))
       /\ pendingContextBlocks' = <<>>
       /\ turn = 0 =>
            history' = <<UserMessage(Blocks(<<ContentBlock(initialReminder),
                                              ContentBlock(UserLine(1))>>))>>]_vars

\* the second user line of a session, taken with nothing pending, after the
\* first one carried the initial reminder
C17_SecondLinePlain ==
  /\ pc = "enter"
  /\ turn = 2
  /\ history[1].Content = Blocks(<<ContentBlock(initialReminder), ContentBlock(UserLine(1))>>)
  /\ Last(history) = UserMessage(Plain(UserLine(2)))
  /\ pendingContextBlocks = <<>>

NagPending(pending) == \E k \in 1..Len(pending) : pending[k] = ContentBlock(nagReminder)

\* C18: the nag reminder is pending only while the inactivity counter is
\* above 10; the step that ends a completed turn, which increments the
\* counter, leaves the nag pending exactly when the incremented counter
\* exceeds 10; and the user line taken after a completed turn that left the
\* counter above 10 (so after 11 completed turns without an accepted
\* TodoWrite) carries the nag reminder before the user text.
C18_NagAboveThreshold ==
  /\ [](NagPending(pendingContextBlocks) => roundsWithoutTodo > nagThreshold)
  /\ [][/\ roundsWithoutTodo' = roundsWithoutTodo + 1 =>
            (NagPending(pendingContextBlocks') <=> roundsWithoutTodo' > nagThreshold)
        /\ (turn' = turn + 1 /\ retErr = "" /\ roundsWithoutTodo > nagThreshold) =>
            Last(history').Content =
              Blocks(<<ContentBlock(nagReminder), ContentBlock(UserLine(turn'))>>)]_vars

\* the twelfth user line, after eleven completed turns without TodoWrite
C18_TwelfthLineNags ==
  /\ pc = "enter"
  /\ turn = nagThreshold + 2
  /\ roundsWithoutTodo = nagThreshold + 1
  /\ Last(history).Content =
       Blocks(<<ContentBlock(nagReminder), ContentBlock(UserLine(turn))>>)

(***************************************************************************)
(* Properties of TodoWrite and the inactivity counter (SpecTodo)           *)
(***************************************************************************)
Accepted(tc) == ReachesUpdate(tc) /\ ~Rejected(Proposed(tc))

NotObjects(list) == {k \in 1..Len(list) : list[k].t # "object"}

\* the error of a TodoWrite call that is not accepted, on the board given
TodoError(tc, board) ==
  IF "items" \notin DOMAIN tc.Arguments.obj THEN "missing items parameter"
  ELSE IF tc.Arguments.obj["items"].t # "array" THEN "items must be an array"
  ELSE IF NotObjects(tc.Arguments.obj["items"].a) # {}
       THEN "item "
            \o Itoa((CHOOSE k \in NotObjects(tc.Arguments.obj["items"].a) :
                       \A j \in NotObjects(tc.Arguments.obj["items"].a) : k <= j) - 1)
            \o " is not an object"
       ELSE Update(board, Proposed(tc)).text

\* C19: a TodoWrite call that is accepted sets the inactivity counter to 0;
\* one that is rejected (items missing or not an array, an item that is no
\* object, or a list Update refuses) leaves the stored list and the counter
\* as they were, and its tool result is the text of the error.
C19_CounterResetOnSuccess ==
  [][(call'.Name = "TodoWrite" /\ ~Unmarshal(call'.Arguments).err) =>
       IF Accepted(call')
       THEN roundsWithoutTodo' = 0
       ELSE /\ todoItems' = todoItems
            /\ roundsWithoutTodo' = roundsWithoutTodo
            /\ toolMsg'.Content.text = TodoError(call', todoItems)]_vars

\* a list refused by Update, three turns into a session without TodoWrite
C19_RejectedKeepsCounter ==
  /\ roundsWithoutTodo = 3
  /\ ReachesUpdate(call)
  /\ Rejected(Proposed(call))
  /\ todoItems = <<>>
  /\ toolMsg.Content.text = TodoError(call, todoItems)

(***************************************************************************)
(* Properties of write_file (SpecWrite)                                    *)
(***************************************************************************)
Lacks(tc, key) == key \notin DOMAIN tc.Arguments.obj

\* C20: a write_file call that lacks content, or lacks path, returns an
\* error and has no effect on the file system: no directory is made and no
\* file is created, truncated or written.
C20_RequiredFieldsFirst ==
  (pc = "toolDone" /\ (Lacks(call, "content") \/ Lacks(call, "path"))) =>
    /\ fs = InitFs
    /\ ioLog = <<>>
    /\ ~HasPrefix(toolMsg.Content.text, "wrote ")

(***************************************************************************)
(* Properties of the sandbox with symbolic links (SpecLink)                *)
(***************************************************************************)
\* C21: no read_file, write_file or edit_text call reads or writes a file
\* outside the workspace through a symbolic link: every call the tools make
\* on the file system is on a path whose links, once followed, lead to the
\* workspace root or below it, and every file outside the workspace is as
\* it was.
C21_LinksValidated ==
  /\ \A k \in 1..Len(ioLog) :
       Inside(RealPath(LinkedFs.links, ioLog[k].path, MaxLinkDepth), cfg.WorkDir)
  /\ \A f \in DOMAIN fs.files :
       ~Inside(f, cfg.WorkDir) => (f \in DOMAIN LinkedFs.files /\ fs.files[f] = LinkedFs.files[f])

(***************************************************************************)
(* Properties of the task board under concurrency (SpecBoard)              *)
(***************************************************************************)
\* the lists the board can hold as a whole: the one it started with and the
\* argument of every Update that validation accepts
WholeLists ==
  {BoardAtStart}
  \cup {threads[t].items : t \in {u \in DOMAIN threads : /\ threads[u].op = "Update"
                                                        /\ ~Update(<<>>, threads[u].items).err}}

InBoard(t) == threads[t].pc \notin {"start", "done"}

\* C22: under every interleaving of Update, Render and Stats calls, at most
\* one call is between its Lock and its Unlock; the stored list is always
\* one whole accepted list; every Render returns the rendering, and every
\* Stats the counts, of one such whole list; an accepted Update returns the
\* rendering of its own list and a rejected one its error.
C22_BoardSerialized ==
  /\ Cardinality({t \in DOMAIN threads : InBoard(t)}) <= 1
  /\ todoItems \in WholeLists
  /\ \A t \in DOMAIN threads :
       threads[t].pc = "done" =>
         CASE threads[t].op = "Render" -> \E l \in WholeLists : threads[t].view = render(l)
           [] threads[t].op = "Stats" -> \E l \in WholeLists : threads[t].counts = stats(l)
           [] OTHER -> IF Update(<<>>, threads[t].items).err
                       THEN threads[t].err = Update(<<>>, threads[t].items).text
                       ELSE threads[t].view = render(threads[t].items)

\* an Update of two items and a Render have both returned, the Render with
\* the two items
C22_RenderAfterUpdate ==
  /\ \A t \in DOMAIN threads : threads[t].pc = "done"
  /\ \E t, u \in DOMAIN threads :
       /\ threads[t].op = "Update" /\ threads[t].items = BoardDone
       /\ threads[u].op = "Render" /\ threads[u].view = render(BoardDone)
  /\ todoItems = BoardDone

(***************************************************************************)
(* Properties of the pending reminders under concurrency (SpecReminders)   *)
(***************************************************************************)
\* the callers that are between their first and their last access to the
\* pending list
Accessing == {t \in DOMAIN threads : threads[t].pc \in {"scan", "append", "copy", "clear"}}

\* how many times a reminder is pending or attached to a returned message
Held(text) ==
  Cardinality({k \in 1..Len(pendingContextBlocks) : pendingContextBlocks[k].Text = text})
  + Cardinality({tk \in {<<t, k>> : t \in DOMAIN threads, k \in 1..MaxThreads + 1} :
                   /\ threads[tk[1]].pc = "done"
                   /\ threads[tk[1]].op = "inject"
                   /\ tk[2] < Len(threads[tk[1]].out.blocks)
                   /\ threads[tk[1]].out.blocks[tk[2]].Text = text})

AllReturned == \A t \in DOMAIN threads : threads[t].pc = "done"

\* C23: every access to the pending reminders is made holding a lock, so
\* that at most one caller is within its accesses at a time; and when all
\* callers have returned, the nag reminder a caller queued is pending or
\* attached to one message (not lost), and no reminder is attached to two
\* messages: the initial reminder is held at most once.
C23_RemindersGuarded ==
  /\ \A t \in Accessing : mu.state = t
  /\ Cardinality(Accessing) <= 1
  /\ AllReturned =>
       /\ (\E t \in DOMAIN threads : threads[t].op = "ensure") => Held(nagReminder) >= 1
       /\ Held(initialReminder) <= 1

(***************************************************************************)
(* Properties of the pending reminders (SpecQueue)                         *)
(***************************************************************************)
TextsOf(pending) == {pending[k].Text : k \in 1..Len(pending)}

\* C24: in every reachable state no two pending blocks have the same text;
\* ensureContextBlock leaves the list as it is when a pending block has
\* exactly the text given, and appends one block with it otherwise.
C24_NoDuplicateReminder ==
  /\ \A j, k \in 1..Len(pendingContextBlocks) :
       pendingContextBlocks[j].Text = pendingContextBlocks[k].Text => j = k
  /\ pc = "ensured" =>
       pendingContextBlocks =
         IF given.text \in TextsOf(given.pending) THEN given.pending
         ELSE given.pending \o <<ContentBlock(given.text)>>

\* the nag reminder asked for while it is pending behind another block
C24_QueuedTwiceKeptOnce ==
  /\ pc = "ensured"
  /\ given.text = nagReminder
  /\ given.pending = <<ContentBlock(initialReminder), ContentBlock(nagReminder)>>
  /\ pendingContextBlocks = given.pending

(***************************************************************************)
(* The message the streaming decoder makes up (SpecStream)                 *)
(***************************************************************************)
FinishReasons(lines) == {lines[k].finish : k \in {j \in 1..Len(lines) : WellFormed(lines[j])}}

\* C25: whenever the decoder returns without an error, its response has
\* exactly one choice, with finish reason "stop" and a message of role
\* assistant, plain text content and no tool calls, whatever finish reasons
\* and tool-call deltas the chunks of the stream carried.
C25_AlwaysOneStopChoice ==
  (pc = "applied" /\ ~result.err) =>
    /\ Len(result.resp.Choices) = 1
    /\ result.resp.Choices[1].FinishReason = "stop"
    /\ result.resp.Choices[1].Message.Role = "assistant"
    /\ result.resp.Choices[1].Message.Content.kind = "string"
    /\ result.resp.Choices[1].Message.ToolCalls = <<>>

\* a stream that ended with finish reason tool_calls and a tool-call delta
C25_ToolCallsBecomeStop ==
  /\ pc = "applied"
  /\ ~result.err
  /\ "tool_calls" \in FinishReasons(UpToEnd(given.lines))
  /\ \E k \in 1..Len(given.lines) : given.lines[k].toolCalls # <<>>
  /\ result.resp.Choices[1].FinishReason = "stop"
  /\ result.resp.Choices[1].Message.ToolCalls = <<>>

(***************************************************************************)
(* The stored status (SpecTodo)                                            *)
(***************************************************************************)
\* the counts Stats would give if it classified as validation did
statsAsValidated(items) ==
  [total |-> Len(items),
   completed |-> Cardinality({k \in 1..Len(items) : ToLower(items[k].Status) = "completed"}),
   in_progress |-> Cardinality({k \in 1..Len(items) : ToLower(items[k].Status) = "in_progress"})]

\* C26: the status of every stored item is exactly one of pending,
\* in_progress and completed, so that Stats counts the stored items as
\* validation classified them.
C26_StoredStatusNormalized ==
  /\ \A k \in 1..Len(todoItems) : ValidStatus(todoItems[k].Status)
  /\ stats(todoItems) = statsAsValidated(todoItems)

(***************************************************************************)
(* The inactivity counter (Spec)                                           *)
(***************************************************************************)
\* the number of tool calls of the responses that came before the j-th
RECURSIVE CallsBefore(_, _)
CallsBefore(rs, j) ==
  IF j <= 1 THEN 0 ELSE CallsBefore(rs, j - 1) + Len(CallsOf(rs[j - 1]))

\* a TodoWrite of the j-th response has been dispatched and was accepted
UpdatedIn(j) ==
  \E p \in 1..Len(CallsOf(responses[j])) :
    /\ CallsBefore(responses, j) + p <= Len(dispatched)
    /\ Accepted(dispatched[CallsBefore(responses, j) + p])

Latest(S) == CHOOSE j \in S : \A k \in S : k <= j

HasChoice(resp) == Len(resp.Choices) > 0

\* the responses with a choice received since the latest accepted TodoWrite,
\* or since the process started (one response in each earlier turn)
ResponsesSinceTodo ==
  IF \E j \in 1..Len(responses) : UpdatedIn(j)
  THEN Len(SelectSeq(SubSeq(responses,
                            Latest({j \in 1..Len(responses) : UpdatedIn(j)}) + 1,
                            Len(responses)), HasChoice))
  ELSE (turn - 1) + Len(SelectSeq(responses, HasChoice))

EndsTurn(resp) == HasChoice(resp) /\ ~RequestsTools(resp)

\* the responses that completed a turn since the latest accepted TodoWrite,
\* or since the process started
TurnsSinceTodo ==
  IF \E j \in 1..Len(responses) : UpdatedIn(j)
  THEN Len(SelectSeq(SubSeq(responses,
                            Latest({j \in 1..Len(responses) : UpdatedIn(j)}) + 1,
                            Len(responses)), EndsTurn))
  ELSE (turn - 1) + Len(SelectSeq(responses, EndsTurn))

\* C27: in every reachable state the inactivity counter equals the number
\* of model responses received since the most recent successful TodoWrite,
\* or since the process started if there was none.
C27_CounterCountsResponses == roundsWithoutTodo = ResponsesSinceTodo

\* C27 (as the code has it): in every reachable state the inactivity counter
\* equals the number of responses that completed a turn (responses that
\* were not a round of tool calls) received since the most recent accepted
\* TodoWrite, or since the process started if there was none.
C27_CounterCountsTurns == roundsWithoutTodo = TurnsSinceTodo

\* a turn of two responses, the first a round of tool calls that did not
\* update the board, has returned and the counter has gone up by one
C27_ToolRoundNotCounted ==
  /\ pc = "returned"
  /\ retErr = ""
  /\ Len(responses) >= 2
  /\ RequestsTools(responses[1])
  /\ ~\E j \in 1..Len(responses) : UpdatedIn(j)
  /\ roundsWithoutTodo = turn

(***************************************************************************)
(* Tool calls and their answers in the history (Spec)                      *)
(***************************************************************************)
\* the assistant message at position i carries tool calls
AsksTools(msgs, i) == msgs[i].Role = "assistant" /\ Len(msgs[i].ToolCalls) > 0

\* the messages after position i are one tool-role message per tool call of
\* msgs[i], in order and with its id, and no further tool-role message
AnsweredAt(msgs, i) ==
  /\ i + Len(msgs[i].ToolCalls) <= Len(msgs)
  /\ \A p \in 1..Len(msgs[i].ToolCalls) :
       /\ msgs[i + p].Role = "tool"
       /\ msgs[i + p].ToolCallID = msgs[i].ToolCalls[p].ID
  /\ i + Len(msgs[i].ToolCalls) < Len(msgs)
       => msgs[i + Len(msgs[i].ToolCalls) + 1].Role # "tool"

AllAnswered(msgs) == \A i \in 1..Len(msgs) : AsksTools(msgs, i) => AnsweredAt(msgs, i)

\* C28: in every history query returns, and in every history it is about to
\* send to the model, each assistant message with tool calls is followed by
\* exactly one tool-role message per call, in order and with the call's id,
\* whatever the finish reason was.
C28_ToolCallsAnswered ==
  /\ pc = "returned" => AllAnswered(messages)
  /\ (pc = "call" /\ InLoop(idx)) => AllAnswered(fullMessages)

(***************************************************************************)
(* Properties of edit_text (SpecEdit)                                      *)
(***************************************************************************)
EditInput == call.Arguments.obj

\* the file the call names, when it is a file of the workspace
EditTarget == safePath(cfg.WorkDir, getString(EditInput, "path"))

EditReadable == EditTarget.ok /\ EditTarget.abs \in DOMAIN EditFs.files

\* edit_text has returned from a delete_range on a file it could read
DeleteRangeDone ==
  /\ pc = "toolDone"
  /\ getString(EditInput, "action") = "delete_range"
  /\ EditReadable

\* the range argument is an array of two numbers
TwoNumbers ==
  /\ "range" \in DOMAIN EditInput
  /\ EditInput["range"].t = "array"
  /\ Len(EditInput["range"].a) = 2
  /\ \A k \in 1..2 : EditInput["range"].a[k].t = "number"

TwoElements ==
  /\ "range" \in DOMAIN EditInput
  /\ EditInput["range"].t = "array"
  /\ Len(EditInput["range"].a) = 2

RangeStart == EditInput["range"].a[1].n
RangeEnd == EditInput["range"].a[2].n

\* the lines of 0-based index i and above, without those in [start, end)
RECURSIVE LinesOutside(_, _, _, _)
LinesOutside(lines, i, start, end) ==
  IF i >= Len(lines) THEN <<>>
  ELSE (IF start <= i /\ i < end THEN <<>> ELSE <<lines[i + 1]>>)
       \o LinesOutside(lines, i + 1, start, end)

FileBefore == EditFs.files[EditTarget.abs]
FileAfter == fs.files[EditTarget.abs]

InvalidRange == "edit_text.delete_range invalid range"

\* C29: delete_range with the range [s, e), 0 <= s <= e, on a file of n
\* lines removes exactly the lines of 0-based index s <= i < min(e, n) and
\* keeps the others in order; a range that has not exactly two elements, or
\* has s < 0 or e < s, is an error.
C29_DeleteRange ==
  DeleteRangeDone =>
    /\ (TwoNumbers /\ 0 <= RangeStart /\ RangeStart <= RangeEnd) =>
          /\ FileAfter = Join(LinesOutside(Split(FileBefore, "\n"), 0, RangeStart, RangeEnd), "\n")
          /\ toolMsg.Content.text # InvalidRange
          /\ fs = [EditFs EXCEPT !.files[EditTarget.abs] = FileAfter]
    /\ (~TwoElements \/ (TwoNumbers /\ (RangeStart < 0 \/ RangeEnd < RangeStart))) =>
          /\ toolMsg.Content.text = InvalidRange
          /\ fs = EditFs

\* [1, 3) on the five lines a..e has left the lines 0, 3 and 4
C29_OneToThreeOfFive ==
  /\ DeleteRangeDone
  /\ EditTarget.abs = "/w/five"
  /\ TwoNumbers /\ RangeStart = 1 /\ RangeEnd = 3
  /\ fs.files["/w/five"] = "a\nd\ne"

\* what runEdit returns for the call, made in the starting workspace
EditReturn == runEdit(cfg, EditInput, [World EXCEPT !.fs = EditFs, !.io = <<>>])

EditAction == ToLower(getString(EditInput, "action"))

\* the cases in which edit_text is to refuse: the path escapes or is missing,
\* the file cannot be read, replace has no find, the range of delete_range
\* is invalid, the action is missing or unsupported
EditRefusal ==
  \/ ~EditTarget.ok
  \/ EditTarget.abs \notin DOMAIN EditFs.files
  \/ EditAction = "replace" /\ getString(EditInput, "find") = ""
  \/ EditAction = "delete_range"
       /\ (~TwoElements \/ (TwoNumbers /\ (RangeStart < 0 \/ RangeEnd < RangeStart)))
  \/ EditAction \notin {"replace", "insert", "delete_range"}

\* C30: an edit_text call that returns an error (the path escapes, the file
\* cannot be read, replace has an empty find, the delete range is invalid,
\* the action is missing or unsupported) leaves the content of the target
\* file, and of every other file, as it was.
C30_ErrorLeavesFile ==
  pc = "toolDone" =>
    /\ EditRefusal => EditReturn.err
    /\ EditReturn.err => (fs = EditFs /\ toolMsg.Content.text = EditReturn.text)

\* a replace without find on the five-line file was refused and the file is
\* as it was
C30_EmptyFindRefused ==
  /\ pc = "toolDone"
  /\ EditTarget.ok /\ EditTarget.abs = "/w/five"
  /\ EditAction = "replace"
  /\ toolMsg.Content.text = "edit_text.replace missing find"
  /\ fs.files["/w/five"] = "a\nb\nc\nd\ne"

(***************************************************************************)
(* Properties of read_file (SpecRead)                                      *)
(***************************************************************************)
ReadInput == call.Arguments.obj

ReadLinesOfFile == Split(EditFs.files[safePath(cfg.WorkDir, getString(ReadInput, "path")).abs], "\n")

\* the first 1-based position asked for: max(start_line, 1), 1 when absent
FirstAsked ==
  IF "start_line" \in DOMAIN ReadInput /\ ReadInput["start_line"].n > 1
  THEN ReadInput["start_line"].n ELSE 1

\* the last 1-based position asked for: end_line, or the last line when
\* end_line is absent or negative
LastAsked(n) ==
  IF "end_line" \in DOMAIN ReadInput /\ ReadInput["end_line"].n >= 0
  THEN ReadInput["end_line"].n ELSE n

\* the lines at the 1-based positions p and above that lie in from..to
RECURSIVE LinesWithin(_, _, _, _)
LinesWithin(lines, p, from, to) ==
  IF p > Len(lines) THEN <<>>
  ELSE (IF from <= p /\ p <= to THEN <<lines[p]>> ELSE <<>>)
       \o LinesWithin(lines, p + 1, from, to)

ReadStart == readStart(getOptionalInt(ReadInput, "start_line"), Len(ReadLinesOfFile))
ReadEnd == readEnd(getOptionalInt(ReadInput, "end_line"), ReadStart, Len(ReadLinesOfFile))

ReadReturn == runRead(cfg, ReadInput, [World EXCEPT !.fs = EditFs, !.io = <<>>])

\* C31: for every file and every integer start_line and end_line (0,
\* negative, past the end, end_line < start_line) read_file does not fail
\* and returns the lines at the 1-based positions max(start_line, 1) through
\* end_line inclusive, through the last line when end_line is absent or
\* negative, nothing when that range is empty; the slice bounds satisfy
\* 0 <= start <= end <= number of lines.
C31_ReadRange ==
  (pc = "toolDone" /\ call.Name = "read_file") =>
    /\ ~ReadReturn.err
    /\ toolMsg.Content.text =
         Join(LinesWithin(ReadLinesOfFile, 1, FirstAsked, LastAsked(Len(ReadLinesOfFile))), "\n")
    /\ 0 <= ReadStart /\ ReadStart <= ReadEnd /\ ReadEnd <= Len(ReadLinesOfFile)
    /\ fs = EditFs

\* lines 2 to 3 of the five lines a..e were asked for and came back
C31_TwoToThreeOfFive ==
  /\ pc = "toolDone"
  /\ call.Name = "read_file"
  /\ getString(ReadInput, "path") = "five"
  /\ getOptionalInt(ReadInput, "start_line") = SomeInt(2)
  /\ getOptionalInt(ReadInput, "end_line") = SomeInt(3)
  /\ toolMsg.Content.text = "b\nc"

(***************************************************************************)
(* The spinner. Two goroutines call Start, Stop and the model call on one  *)
(* spinner, each in the order of its script (query's own order is Start,   *)
(* call, Stop); every go s.loop() adds a goroutine. A step is one access   *)
(* to the spinner's mutex, fields or channels.                             *)
(***************************************************************************)
spinnerFrameCount == 4
MaxOps == 3

NoResponse == [err |-> FALSE, text |-> "none", resp |-> APIResponse(<<>>)]

SpinCaller(ops) == [kind |-> "caller", ops |-> ops, pc |-> "idle", resp |-> NoResponse, frame |-> 0]
LoopThread == [kind |-> "loop", ops |-> <<>>, pc |-> "select", resp |-> NoResponse, frame |-> 0]

RECURSIVE OpSeqs(_)
OpSeqs(n) ==
  IF n = 0 THEN {<<>>}
  ELSE OpSeqs(n - 1) \cup {Append(q, op) : q \in OpSeqs(n - 1), op \in {"Start", "Stop", "Call"}}

OtherScripts == {<<>>, <<"Start">>, <<"Stop">>, <<"Start", "Stop">>}

\* every goroutine there can be: the two callers and one per Start
SpinThreads == 1..(MaxOps + 4)

IsCaller(t) == t \in DOMAIN threads /\ threads[t].kind = "caller"
IsLoop(g) == g \in DOMAIN threads /\ threads[g].kind = "loop"
NextOp(t) == IF threads[t].ops = <<>> THEN "" ELSE Head(threads[t].ops)

At(t, where) == Moved(t, [threads[t] EXCEPT !.pc = where])

\* close(ch): closing the nil channel or a closed one panics
closeChannel(s, ch) ==
  [s EXCEPT !.closed = @ \cup {ch}, !.panicked = @ \/ ch = 0 \/ ch \in s.closed]

SpinFrame ==
  UNCHANGED <<cfg, pc, queryVars, fs, ioLog, execLog, todoItems, roundsWithoutTodo,
              pendingContextBlocks, call, toolMsg, dispatched, mainVars, given, result, mu>>

\* lines 248 and 278: s.mu.Lock()
SpinLock(t) ==
  /\ IsCaller(t)
  /\ threads[t].pc = "idle"
  /\ NextOp(t) \in {"Start", "Stop"}
  /\ LockFree(spin.mu)
  /\ spin' = [spin EXCEPT !.mu = t]
  /\ At(t, "locked")
  /\ SpinFrame

\* a Start that does not look at s.running
startCheckAlways(running, terminal) == IF ~terminal THEN "unlock" ELSE "makeStop"

\* lines 250-255: where Start goes after its two tests
startCheck(running, terminal) == IF running \/ ~terminal THEN "unlock" ELSE "makeStop"

StartCheck(t) ==
  /\ IsCaller(t)
  /\ threads[t].pc = "locked"
  /\ NextOp(t) = "Start"
  /\ At(t, startCheck(spin.running, given.terminal))
  /\ UNCHANGED spin
  /\ SpinFrame

\* line 256
StartStopCh(t) ==
  /\ IsCaller(t)
  /\ threads[t].pc = "makeStop"
  /\ spin' = [spin EXCEPT !.stopCh = spin.made + 1, !.made = spin.made + 1]
  /\ At(t, "makeDone")
  /\ SpinFrame

\* line 257
StartDoneCh(t) ==
  /\ IsCaller(t)
  /\ threads[t].pc = "makeDone"
  /\ spin' = [spin EXCEPT !.doneCh = spin.made + 1, !.made = spin.made + 1]
  /\ At(t, "setRunning")
  /\ SpinFrame

\* line 258
StartRunning(t) ==
  /\ IsCaller(t)
  /\ threads[t].pc = "setRunning"
  /\ spin' = [spin EXCEPT !.running = TRUE]
  /\ At(t, "go")
  /\ SpinFrame

\* line 259: go s.loop()
StartGo(t) ==
  /\ IsCaller(t)
  /\ threads[t].pc = "go"
  /\ threads' = Append([threads EXCEPT ![t].pc = "unlock"], LoopThread)
  /\ UNCHANGED spin
  /\ SpinFrame

\* lines 280-282
StopCheck(t) ==
  /\ IsCaller(t)
  /\ threads[t].pc = "locked"
  /\ NextOp(t) = "Stop"
  /\ At(t, IF spin.running THEN "closeStop" ELSE "unlock")
  /\ UNCHANGED spin
  /\ SpinFrame

\* line 283: close(s.stopCh)
StopClose(t) ==
  /\ IsCaller(t)
  /\ threads[t].pc = "closeStop"
  /\ spin' = closeChannel(spin, spin.stopCh)
  /\ At(t, "waitDone")
  /\ SpinFrame

\* line 284: <-s.doneCh, which a closed channel lets through
StopWait(t) ==
  /\ IsCaller(t)
  /\ threads[t].pc = "waitDone"
  /\ spin.doneCh \in spin.closed
  /\ At(t, "clearRunning")
  /\ UNCHANGED spin
  /\ SpinFrame

\* line 285
StopClear(t) ==
  /\ IsCaller(t)
  /\ threads[t].pc = "clearRunning"
  /\ spin' = [spin EXCEPT !.running = FALSE]
  /\ At(t, "unlock")
  /\ SpinFrame

\* lines 249 and 279: the deferred s.mu.Unlock(), and the return
SpinUnlock(t) ==
  /\ IsCaller(t)
  /\ threads[t].pc = "unlock"
  /\ spin' = [spin EXCEPT !.mu = 0]
  /\ Moved(t, [threads[t] EXCEPT !.pc = "idle", !.ops = Tail(@)])
  /\ SpinFrame

\* line 388: resp, err := callOpenAI(cfg, fullMessages)
ModelCall(t) ==
  /\ IsCaller(t)
  /\ threads[t].pc = "idle"
  /\ NextOp(t) = "Call"
  /\ Moved(t, [threads[t] EXCEPT !.resp = callOpenAI(cfg, given.reply), !.ops = Tail(@)])
  /\ UNCHANGED spin
  /\ SpinFrame

\* lines 272-274: the ticker fired and a frame is drawn
LoopTick(g) ==
  /\ IsLoop(g)
  /\ threads[g].pc = "select"
  /\ Moved(g, [threads[g] EXCEPT !.frame = (@ + 1) % spinnerFrameCount])
  /\ UNCHANGED spin
  /\ SpinFrame

\* lines 268-269: <-s.stopCh came through and the line is wiped
LoopStop(g) ==
  /\ IsLoop(g)
  /\ threads[g].pc = "select"
  /\ spin.stopCh \in spin.closed
  /\ At(g, "closeDone")
  /\ UNCHANGED spin
  /\ SpinFrame

\* line 270: close(s.doneCh)
LoopClose(g) ==
  /\ IsLoop(g)
  /\ threads[g].pc = "closeDone"
  /\ spin' = closeChannel(spin, spin.doneCh)
  /\ At(g, "deferred")
  /\ SpinFrame

\* lines 264 and 271: return, with the deferred ticker.Stop()
LoopExit(g) ==
  /\ IsLoop(g)
  /\ threads[g].pc = "deferred"
  /\ At(g, "exited")
  /\ UNCHANGED spin
  /\ SpinFrame

InitSpinner ==
  /\ cfg = Config("/w", defaultMaxTokens, FALSE)
  /\ pc = "threads"
  /\ threads \in {<<SpinCaller(a), SpinCaller(b)>> : a \in OpSeqs(MaxOps), b \in OtherScripts}
  /\ given \in {[terminal |-> term, reply |-> r] : term \in BOOLEAN, r \in {Answer(StopDoc), Refused}}
  /\ spin = NoSpinner
  /\ mu = Unlocked
  /\ result = <<>>
  /\ pendingContextBlocks = <<>>
  /\ entry = <<>>
  /\ messages = <<>>
  /\ fullMessages = <<>>
  /\ idx = 0
  /\ choice = NoChoice
  /\ tcIdx = 0
  /\ wire = Refused
  /\ responses = <<>>
  /\ modelCalls = 0
  /\ retErr = ""
  /\ history = <<>>
  /\ turn = 0
  /\ script = <<>>
  /\ todoItems = <<>>
  /\ roundsWithoutTodo = 0
  /\ fs = InitFs
  /\ ioLog = <<>>
  /\ execLog = <<>>
  /\ call = NoCall
  /\ toolMsg = NoMessage
  /\ dispatched = <<>>

CallerStep(t) ==
  \/ SpinLock(t) \/ StartCheck(t) \/ StartStopCh(t) \/ StartDoneCh(t) \/ StartRunning(t)
  \/ StartGo(t) \/ StopCheck(t) \/ StopClose(t) \/ StopWait(t) \/ StopClear(t)
  \/ SpinUnlock(t) \/ ModelCall(t)

NextSpinner ==
  \E t \in SpinThreads :
    \/ SpinLock(t) \/ StartCheck(t) \/ StartStopCh(t) \/ StartDoneCh(t) \/ StartRunning(t)
    \/ StartGo(t) \/ StopCheck(t) \/ StopClose(t) \/ StopWait(t) \/ StopClear(t)
    \/ SpinUnlock(t) \/ ModelCall(t)
    \/ LoopTick(t) \/ LoopStop(t) \/ LoopClose(t) \/ LoopExit(t)

SpecSpinner == InitSpinner /\ [][NextSpinner]_vars

\* what loop does once the stop channel is closed
LoopEnd(g) == LoopStop(g) \/ LoopClose(g) \/ LoopExit(g)

\* every goroutine is scheduled again and again, and a select with the stop
\* channel ready does not pick the ticker for ever (select chooses among the
\* ready cases at random)
FairSpinner ==
  /\ \A t \in {1, 2} : WF_vars(CallerStep(t))
  /\ \A g \in SpinThreads \ {1, 2} : WF_vars(LoopEnd(g))

SpecSpinnerFair == InitSpinner /\ [][NextSpinner]_vars /\ FairSpinner

(***************************************************************************)
(* Properties of the spinner (SpecSpinnerFair)                             *)
(***************************************************************************)
Loops == {g \in DOMAIN threads : threads[g].kind = "loop"}
SpinCallers == {1, 2}

\* the goroutines that have not returned from loop
Unfinished == {g \in Loops : threads[g].pc # "exited"}

\* the goroutines that have not yet closed their done channel: they draw,
\* or are about to wipe the line
Unsignalled == {g \in Loops : threads[g].pc \in {"select", "closeDone"}}

\* Stop is returning in goroutine t: all of its body is done
StopReturning(t) == threads[t].pc = "unlock" /\ NextOp(t) = "Stop"

\* a Stop of t's script has not returned; the scripts being finite, every
\* Stop returns exactly if in the end none is left pending
StopPending(t) == NextOp(t) = "Stop"

\* a Start with the spinner running, or a Stop with it not running, is
\* past its test
Redundant(t) ==
  /\ threads[t].pc = "locked"
  /\ \/ NextOp(t) = "Start" /\ spin.running
     \/ NextOp(t) = "Stop" /\ ~spin.running

\* such a call goes straight to its return: no field, channel or goroutine
\* is touched
RedundantIsNoOp ==
  \A t \in SpinCallers :
    (Redundant(t) /\ threads'[t] # threads[t]) =>
      /\ threads'[t].pc = "unlock"
      /\ spin' = spin
      /\ Len(threads') = Len(threads)

\* whatever the spinner did, a model call returned what callOpenAI makes of
\* the endpoint's reply
CallUntouched ==
  \A t \in SpinCallers : threads[t].resp \in {NoResponse, callOpenAI(cfg, given.reply)}

\* C32 (as stated): at most one spinner goroutine is running at any time,
\* and when Stop returns the goroutine has exited.
C32_GoroutineExited ==
  /\ Cardinality(Unfinished) <= 1
  /\ \A t \in SpinCallers : StopReturning(t) => Unfinished = {}

SpinnerSafe ==
  /\ Cardinality(Unsignalled) <= 1
  /\ \A t \in SpinCallers : StopReturning(t) => (~spin.running /\ Unsignalled = {})
  /\ ~spin.running => Unsignalled = {}
  /\ ~spin.panicked
  /\ CallUntouched

\* C32 (as the code has it): at any time at most one spinner goroutine has
\* not yet signalled that it is done; every Stop call returns in the end
\* when the goroutines are scheduled fairly, and when it returns the
\* goroutine has drawn for the last time and closed its done channel (it may
\* still have its ticker to stop); Start while running and Stop while not
\* running change nothing; the model call's result is what callOpenAI makes
\* of the reply whether or not the spinner ran.
C32_SpinnerHarmless ==
  /\ []SpinnerSafe
  /\ [][RedundantIsNoOp]_vars
  /\ \A t \in SpinCallers : <>[]~StopPending(t)

\* on a terminal, Stop is returning after a goroutine that drew frames, the
\* model call having returned in between
C32_StartCallStop ==
  /\ given.terminal
  /\ StopReturning(1)
  /\ threads[1].resp = callOpenAI(cfg, given.reply)
  /\ ~spin.running
  /\ \E g \in Loops : threads[g].frame > 0 /\ threads[g].pc \in {"deferred", "exited"}

====
